---- MODULE Spec2Model ----
(***************************************************************************)
(* A model of gemini-cli-usage-analyzer: the record simplifier             *)
(* (simplify_logs.py), the raw-log converter with its tail scan            *)
(* (convert_logs.py), the cost calculator and the aggregation pass with the *)
(* stats command (calculate_token_usage.py), the in-place simplification   *)
(* of a JSONL file (simplify_logs.py), and the price specification with    *)
(* its cache file (price_spec.py).                                         *)
(*                                                                         *)
(* JSON text is a sequence of lexical tokens (one token stands for one     *)
(* byte run of the file); JSON values are tagged records.  orjson.loads    *)
(* and orjson.dumps are a parser and a printer over these tokens.          *)
(***************************************************************************)
EXTENDS Integers, Sequences, FiniteSets, TLC

VARIABLES
    pc,          \* position of the operation under way
    record,      \* simplify_record: the caller's record object
    level,       \* simplify_record: the level argument
    result,      \* simplify_record: what the call produced
    chained,     \* simplify_record applied to the output of a lower level
    event,       \* calculate_cost: the attributes of the event
    price_spec,  \* calculate_cost: the price specification
    cost,        \* calculate_cost: the value returned
    output,      \* the JSONL file (output_file_path)
    chunk,       \* get_last_timestamp: the chunk size in use
    scan,        \* get_last_timestamp: pos, remainder and what it returned
    source,      \* what the producer wrote into the raw log, object by object
    input,       \* the raw log file (input_file_path)
    archive,     \* the files of the archive folder, by the second in their name
    now,         \* the clock, in seconds
    run,         \* the locals of the conversion under way
    runs,        \* the conversions that have ended, oldest first
    log,         \* process_log_file: the JSONL file read (log_file_path)
    timezone,    \* process_log_file: the zone of the daily buckets
    stats,       \* process_log_file: its locals and what it returned
    exit_code,   \* the stats command: the exit code of the process
    job,         \* run_log_simplification: arguments, files and outcome
    pricing      \* get_price_spec: the cache file, the remote end, the outcome

simplify_vars == <<record, level, result, chained>>

cost_vars == <<event, price_spec, cost>>

tail_vars == <<output, chunk, scan>>

convert_vars == <<source, input, archive, now, run, runs>>

stats_vars == <<log, timezone, stats, exit_code>>

job_vars == <<job>>

pricing_vars == <<pricing>>

vars == <<pc, simplify_vars, cost_vars, tail_vars, convert_vars, stats_vars, job_vars, pricing_vars>>

(***************************************************************************)
(* JSON values.  Python's None and JSON null are the same value.           *)
(***************************************************************************)
None == [ty |-> "null", s |-> "", n |-> 0, m |-> <<>>]

Str(x) == [ty |-> "str", s |-> x, n |-> 0, m |-> <<>>]

Num(x) == [ty |-> "int", s |-> "", n |-> x, m |-> <<>>]

\* a dict: its items in insertion order
Obj(items) == [ty |-> "obj", s |-> "", n |-> 0, m |-> items]

Item(key, value) == [k |-> key, v |-> value]

\* key in d
Has(d, key) == \E i \in 1..Len(d.m) : d.m[i].k = key

\* d[key], for a key that is in d
Get(d, key) == d.m[CHOOSE i \in 1..Len(d.m) : d.m[i].k = key].v

\* d.get(key, default)
GetOr(d, key, default) == IF Has(d, key) THEN Get(d, key) ELSE default

\* d[key] = value: an existing key keeps its place, a new one goes last
Set(d, key, value) ==
    IF Has(d, key)
    THEN Obj([i \in 1..Len(d.m) |->
                 IF d.m[i].k = key THEN Item(key, value) ELSE d.m[i]])
    ELSE Obj(Append(d.m, Item(key, value)))

Keys(d) == {d.m[i].k : i \in 1..Len(d.m)}

\* Python truthiness of a scalar or dict
Truthy(v) ==
    CASE v.ty = "null" -> FALSE
      [] v.ty = "str"  -> v.s # ""
      [] v.ty = "int"  -> v.n # 0
      [] OTHER         -> Len(v.m) > 0

(***************************************************************************)
(* JSON text.  A file is a sequence of tokens, each standing for a run of  *)
(* its bytes: a brace, a comma, a newline, a blank, a key with its colon,  *)
(* a scalar, or bytes that are no JSON.                                    *)
(***************************************************************************)
Tok(type, key, value) == [t |-> type, s |-> key, v |-> value]

LB == Tok("{", "", None)

RB == Tok("}", "", None)

COMMA == Tok(",", "", None)

NL == Tok("nl", "", None)

SP == Tok("sp", "", None)

JUNK == Tok("junk", "", None)

KeyTok(key) == Tok("key", key, None)

ValTok(value) == Tok("val", "", value)

Whitespace == {NL, SP}

\* bytes.strip() / str.strip() leaves nothing
Blank(text) == \A i \in 1..Len(text) : text[i] \in Whitespace

RECURSIVE DumpsItems(_, _)
\* orjson.dumps: compact, the items in the dict's order
Dumps(value) ==
    IF value.ty = "obj"
    THEN <<LB>> \o DumpsItems(value.m, 1) \o <<RB>>
    ELSE <<ValTok(value)>>

DumpsItems(items, i) ==
    IF i > Len(items) THEN <<>>
    ELSE <<KeyTok(items[i].k)>> \o Dumps(items[i].v)
         \o (IF i < Len(items) THEN <<COMMA>> ELSE <<>>)
         \o DumpsItems(items, i + 1)

RECURSIVE PrettyItems(_, _)
\* the producer's pretty-printing (json.dumps(indent=2) in the tests): one
\* item per line, a closing brace on a line of its own
Pretty(value) ==
    IF value.ty = "obj" /\ Len(value.m) > 0
    THEN <<LB, NL>> \o PrettyItems(value.m, 1) \o <<SP, RB>>
    ELSE Dumps(value)

PrettyItems(items, i) ==
    IF i > Len(items) THEN <<>>
    ELSE <<SP, KeyTok(items[i].k)>> \o Pretty(items[i].v)
         \o (IF i < Len(items) THEN <<COMMA>> ELSE <<>>)
         \o <<NL>> \o PrettyItems(items, i + 1)

\* a top-level object of the raw log, its closing brace alone on the last
\* line and not indented
PrettyRecord(value) == <<LB, NL>> \o PrettyItems(value.m, 1) \o <<RB, NL>>

ParseFailure == [ok |-> FALSE, val |-> None, next |-> 0]

ParseSuccess(value, next_) == [ok |-> TRUE, val |-> value, next |-> next_]

RECURSIVE ParseValue(_, _), ParseItems(_, _, _)
\* the value that starts at token i of a text without whitespace
ParseValue(text, i) ==
    IF i > Len(text) THEN ParseFailure
    ELSE IF text[i].t = "val" THEN ParseSuccess(text[i].v, i + 1)
    ELSE IF text[i].t = "{"
         THEN IF i + 1 <= Len(text) /\ text[i + 1].t = "}"
              THEN ParseSuccess(Obj(<<>>), i + 2)
              ELSE ParseItems(text, i + 1, Obj(<<>>))
    ELSE ParseFailure

\* the items of an object from token i on, up to its closing brace
ParseItems(text, i, acc) ==
    IF i > Len(text) \/ text[i].t # "key" THEN ParseFailure
    ELSE LET r == ParseValue(text, i + 1)
         IN  IF ~r.ok \/ r.next > Len(text) THEN ParseFailure
             ELSE IF text[r.next].t = ","
                  THEN ParseItems(text, r.next + 1, Set(acc, text[i].s, r.val))
             ELSE IF text[r.next].t = "}"
                  THEN ParseSuccess(Set(acc, text[i].s, r.val), r.next + 1)
             ELSE ParseFailure

\* orjson.loads: ok is FALSE for JSONDecodeError; the whole text must be
\* one value
Loads(text) ==
    LET bare == SelectSeq(text, LAMBDA tok : tok \notin Whitespace)
        r == ParseValue(bare, 1)
    IN  IF r.ok /\ r.next = Len(bare) + 1 THEN r ELSE ParseFailure

(***************************************************************************)
(* Files, and the order of strings.                                        *)
(***************************************************************************)
Absent == [exists |-> FALSE, data |-> <<>>]

FileOf(text) == [exists |-> TRUE, data |-> text]

Min(S) == CHOOSE x \in S : \A y \in S : x <= y

Reverse(seq) == [i \in 1..Len(seq) |-> seq[Len(seq) + 1 - i]]

\* the characters of the timestamps in use
Codes(string) ==
    CASE string = ""    -> <<>>
      [] string = "t1"  -> <<116, 49>>
      [] string = "t10" -> <<116, 49, 48>>
      [] string = "t2"  -> <<116, 50>>

RECURSIVE LexLeq(_, _)
\* a <= b for two strings: the order of their characters
LexLeq(a, b) ==
    IF a = <<>> THEN TRUE
    ELSE IF b = <<>> THEN FALSE
    ELSE IF a[1] # b[1] THEN a[1] < b[1]
    ELSE LexLeq(Tail(a), Tail(b))

RECURSIVE Join(_)
\* the lines, a newline between each two
Join(lines) ==
    IF Len(lines) = 0 THEN <<>>
    ELSE IF Len(lines) = 1 THEN lines[1]
    ELSE lines[1] \o <<NL>> \o Join(Tail(lines))

RECURSIVE FirstNL(_, _)
\* the first newline of the text from byte i on; Len(text) + 1 if none
FirstNL(text, i) ==
    IF i > Len(text) \/ text[i] = NL THEN i ELSE FirstNL(text, i + 1)

RECURSIVE SplitFrom(_, _)
SplitFrom(text, i) ==
    LET j == FirstNL(text, i)
    IN  IF j > Len(text) THEN <<SubSeq(text, i, Len(text))>>
        ELSE <<SubSeq(text, i, j - 1)>> \o SplitFrom(text, j + 1)

\* bytes.split(b"\n")
SplitNL(text) == SplitFrom(text, 1)

(***************************************************************************)
(* convert_logs.py: get_last_timestamp                                     *)
(***************************************************************************)
\* line 44
chunk_size == 64 * 1024

\* orjson.loads(line)["attributes"]["event.timestamp"] raising whatever it
\* raises: the inner handlers catch JSONDecodeError alone
TimestampOfUncaught(line) ==
    LET r == Loads(line)
    IN  IF r.ok /\ r.val.ty = "obj" /\ Has(r.val, "attributes")
           /\ Get(r.val, "attributes").ty = "obj"
           /\ Has(Get(r.val, "attributes"), "event.timestamp")
        THEN [kind |-> "ok", v |-> Get(Get(r.val, "attributes"), "event.timestamp")]
        ELSE [kind |-> "Error", v |-> None]

\* lines 62, 73, 89: orjson.loads(line)["attributes"]["event.timestamp"];
\* JSONDecodeError for text that is no JSON, another error (TypeError,
\* KeyError) for JSON without the two keys
TimestampOf(line) ==
    LET r == Loads(line)
    IN  IF ~r.ok THEN [kind |-> "JSONDecodeError", v |-> None]
        ELSE IF r.val.ty = "obj" /\ Has(r.val, "attributes")
                /\ Get(r.val, "attributes").ty = "obj"
                /\ Has(Get(r.val, "attributes"), "event.timestamp")
        THEN [kind |-> "ok", v |-> Get(Get(r.val, "attributes"), "event.timestamp")]
        ELSE [kind |-> "Error", v |-> None]

Scan(pos_, remainder_, status_, value_) ==
    [pos |-> pos_, remainder |-> remainder_, status |-> status_, value |-> value_]

NoScan == Scan(0, <<>>, "idle", None)

\* lines 40-42
ScanOpen(file) == Scan(Len(file.data), <<>>, "scanning", None)

\* the lines of a chunk tried from the first to the last
CandidatesForward(parts, remainder_) ==
    SubSeq(parts, 2, Len(parts) - 1) \o <<parts[Len(parts)] \o remainder_>>

\* lines 58-76: the lines of a chunk in the order they are tried, the last
\* line (with the remainder) first, then the full lines backward
Candidates(parts, remainder_) ==
    <<parts[Len(parts)] \o remainder_>>
    \o Reverse(SubSeq(parts, 2, Len(parts) - 1))

\* lines 47-84: one pass of the while loop
ScanChunk(file, chunk_, st) ==
    LET read_len == IF chunk_ < st.pos THEN chunk_ ELSE st.pos
        pos_ == st.pos - read_len
        bytes == SubSeq(file.data, pos_ + 1, pos_ + read_len)
    IN  IF \E i \in 1..Len(bytes) : bytes[i] = NL
        THEN LET parts == SplitNL(bytes)
                 tried == Candidates(parts, st.remainder)
                 hits == {i \in 1..Len(tried) :
                            /\ ~Blank(tried[i])
                            /\ TimestampOf(tried[i]).kind # "JSONDecodeError"}
             IN  IF hits = {}
                 THEN Scan(pos_, parts[1], "scanning", None)
                 ELSE LET found == TimestampOf(tried[Min(hits)])
                      IN  IF found.kind = "ok"
                          THEN Scan(pos_, st.remainder, "returned", found.v)
                          ELSE Scan(pos_, st.remainder, "ValueError", None)
        ELSE Scan(pos_, bytes \o st.remainder, "scanning", None)

\* lines 86-94: the start of the file is reached
ScanEnd(st) ==
    IF Blank(st.remainder) THEN Scan(st.pos, st.remainder, "returned", None)
    ELSE LET found == TimestampOf(st.remainder)
         IN  IF found.kind = "ok"
             THEN Scan(st.pos, st.remainder, "returned", found.v)
             ELSE Scan(st.pos, st.remainder, "ValueError", None)

RECURSIVE ScanLoop(_, _, _)
ScanLoop(file, chunk_, st) ==
    IF st.status # "scanning" THEN st
    ELSE IF st.pos > 0 THEN ScanLoop(file, chunk_, ScanChunk(file, chunk_, st))
    ELSE ScanEnd(st)

\* the whole call: status "returned" with the value, or "ValueError"
get_last_timestamp(file, chunk_) ==
    IF ~file.exists THEN Scan(0, <<>>, "returned", None)
    ELSE ScanLoop(file, chunk_, ScanOpen(file))

(***************************************************************************)
(* simplify_logs.py: simplify_record                                       *)
(***************************************************************************)
API_RESPONSE == Str("gemini_cli.api_response")

API_REQUEST == Str("gemini_cli.api_request")

\* the keys of the dict literal of level 3, in its order
Level3Keys ==
    << "event.timestamp", "duration_ms", "input_token_count",
       "output_token_count", "cached_content_token_count",
       "thoughts_token_count", "total_token_count", "tool_token_count",
       "model", "session.id", "event.name" >>

\* what a call leaves behind: the exception raised ("" for none), the value
\* returned, and the caller's record object after the call
Outcome(exception, returned, argument) ==
    [exc |-> exception, ret |-> returned, arg |-> argument]

\* a wrong dict literal at level 2: every top-level key is kept
ReshapeKeepsAll(rec, level_) ==
    IF level_ >= 2 /\ ~Has(rec, "_body")
    THEN Outcome("", None, rec)
    ELSE Outcome("", rec, rec)

\* lines 76-77: record = {"attributes": ..., "_body": ...}; KeyError is
\* caught at line 78 and the record dropped
Reshape(rec, level_) ==
    IF level_ >= 2
    THEN IF Has(rec, "_body")
         THEN Outcome("", Obj(<< Item("attributes", Get(rec, "attributes")),
                                 Item("_body", Get(rec, "_body")) >>), rec)
         ELSE Outcome("", None, rec)
    ELSE Outcome("", rec, rec)

\* wrong tuples at line 72
Level1EventsResponseOnly == {API_RESPONSE}

Level1EventsRequestOnly == {API_REQUEST}

\* line 72: the events levels 1 and 2 keep
Level1Events == {API_RESPONSE, API_REQUEST}

\* a level-3 dict literal that forgets tool_token_count
Level3AttributesTen(attributes) ==
    LET keys == SelectSeq(Level3Keys, LAMBDA key : key # "tool_token_count")
    IN  Obj([i \in 1..Len(keys) |-> Item(keys[i], Get(attributes, keys[i]))])

\* the dict literal of lines 55-68
Level3Attributes(attributes) ==
    Obj([i \in 1..Len(Level3Keys) |->
            Item(Level3Keys[i], Get(attributes, Level3Keys[i]))])

\* evaluating the literal raises KeyError when a key is missing; the
\* assignment of line 55 has then not happened
Level3KeyError(attributes) ==
    \E i \in 1..Len(Level3Keys) : ~Has(attributes, Level3Keys[i])

\* lines 43-83, for a level in 1..3
simplify_levels(rec, level_) ==
    IF ~Has(rec, "attributes") THEN Outcome("", None, rec)
    ELSE IF ~Has(Get(rec, "attributes"), "event.name") THEN Outcome("", None, rec)
    ELSE
      LET attributes == Get(rec, "attributes")
          event_name == Get(attributes, "event.name")
      IN  IF level_ >= 3
          THEN IF event_name # API_RESPONSE THEN Outcome("", None, rec)
               ELSE IF Level3KeyError(attributes) THEN Outcome("", None, rec)
               ELSE Reshape(Set(rec, "attributes", Level3Attributes(attributes)),
                            level_)
          ELSE IF event_name \notin Level1Events THEN Outcome("", None, rec)
               ELSE Reshape(rec, level_)

\* a simplify_record without the early return of level 0
simplify_record_filters_level0(rec, level_) ==
    IF level_ < 0 \/ level_ > 3 THEN Outcome("ValueError", None, rec)
    ELSE simplify_levels(rec, IF level_ = 0 THEN 1 ELSE level_)

simplify_record(rec, level_) ==
    IF level_ = 0 THEN Outcome("", rec, rec)
    ELSE IF level_ < 0 \/ level_ > 3 THEN Outcome("ValueError", None, rec)
    ELSE simplify_levels(rec, level_)

(***************************************************************************)
(* convert_logs.py: convert_log_file and run_log_conversion                *)
(***************************************************************************)
RECURSIVE LineEnd(_, _)
\* where the line that starts at byte i ends: at its newline, or at the end
\* of the file
LineEnd(text, i) ==
    IF i >= Len(text) \/ text[i] = NL THEN i ELSE LineEnd(text, i + 1)

\* for line in f_in: the line that starts at byte i, with its newline
ReadLine(text, i) == SubSeq(text, i, LineEnd(text, i))

\* line 134: line.strip() == "}"
IsTrigger(line) == SelectSeq(line, LAMBDA tok : tok \notin Whitespace) = <<RB>>

\* a buffer that is not cleared
BufferKept(buffer) == buffer

\* line 139: buffer = ""
BufferAfterParse(buffer) == <<>>

\* a <= b of Python: defined for two strings and for two numbers
Comparable(a, b) == a.ty = b.ty /\ a.ty \in {"str", "int"}

Leq(a, b) == IF a.ty = "str" THEN LexLeq(Codes(a.s), Codes(b.s)) ELSE a.n <= b.n

\* a check that lets the watermark's own record through
SkippedStrict(current_ts, last_timestamp) ==
    Truthy(last_timestamp) /\ Leq(current_ts, last_timestamp)
    /\ current_ts # last_timestamp

\* a check that skips no record
SkippedNever(current_ts, last_timestamp) == FALSE

\* line 148: last_timestamp and current_ts <= last_timestamp
Skipped(current_ts, last_timestamp) ==
    Truthy(last_timestamp) /\ Leq(current_ts, last_timestamp)

\* a mode that always truncates
OpenModeTruncates(last_timestamp) == "wb"

\* a mode that always appends
OpenModeAppends(last_timestamp) == "ab"

\* line 124
OpenMode(last_timestamp) == IF Truthy(last_timestamp) THEN "ab" ELSE "wb"

\* line 127: open(output_file_path, mode)
Opened(file, mode) ==
    IF mode = "ab" /\ file.exists THEN file ELSE FileOf(<<>>)

\* a drop by simplify_record that is counted as skipped
DroppedAsSkipped(r) == [r EXCEPT !.skipped_count = @ + 1]

\* lines 152-153: simplify_record returned None, continue
Dropped(r) == r

\* the locals of convert_log_file, with what run_log_conversion was given;
\* offset is the byte of f_in the next line starts at (from 1), before is
\* the output file as the run found it, and parsed are the objects
\* orjson.loads has returned
Run(archiving_, last_timestamp, before_, offset_, buffer_, count_, skipped_, parsed_) ==
    [archiving_enabled |-> archiving_, last_timestamp |-> last_timestamp,
     before |-> before_, offset |-> offset_, buffer |-> buffer_,
     count |-> count_, skipped_count |-> skipped_, parsed |-> parsed_]

NoRun == Run(FALSE, None, Absent, 0, <<>>, 0, 0, <<>>)

MaxClock == 1

\* the archive folder, empty
NoArchive == [t \in 0..MaxClock |-> Absent]

\* what a conversion that has ended leaves to look at
Ended(status_, r, after_) ==
    [status |-> status_, count |-> r.count, skipped_count |-> r.skipped_count,
     last_timestamp |-> r.last_timestamp, before |-> r.before,
     after |-> after_, parsed |-> r.parsed, archived |-> r.archiving_enabled]

\* a check that only finds the timestamp that is not there
MissingKey(current_ts) == current_ts = None

\* line 144: not current_ts
Missing(current_ts) == ~Truthy(current_ts)

\* lines 130-161: one pass of the for loop.  The result is the new locals
\* (r), the output file (out) and the exception that ends the call ("" for
\* none).
ConvertLine(r, out, line, level_) ==
    LET buffer == r.buffer \o line
        p == Loads(buffer)
        Same(buffer_) == [r EXCEPT !.buffer = buffer_, !.offset = @ + Len(line)]
        Step(r_, out_, exc_) == [r |-> r_, out |-> out_, exc |-> exc_]
    IN  IF ~IsTrigger(line) \/ ~p.ok THEN Step(Same(buffer), out, "")
        ELSE
          LET obj == p.val
              got == [Same(BufferAfterParse(buffer)) EXCEPT
                          !.parsed = Append(@, obj)]
              attributes == GetOr(obj, "attributes", Obj(<<>>))
          IN  IF attributes.ty # "obj" THEN Step(got, out, "AttributeError")
              ELSE
                LET current_ts == GetOr(attributes, "event.timestamp", None)
                IN  IF Missing(current_ts) THEN Step(got, out, "")
                    ELSE IF Truthy(r.last_timestamp)
                            /\ ~Comparable(current_ts, r.last_timestamp)
                         THEN Step(got, out, "TypeError")
                    ELSE IF Skipped(current_ts, r.last_timestamp)
                         THEN Step([got EXCEPT !.skipped_count = @ + 1], out, "")
                    ELSE
                      LET simplified == simplify_record(obj, level_)
                      IN  IF simplified.exc # ""
                          THEN Step(got, out, simplified.exc)
                          ELSE IF simplified.ret = None
                          THEN Step(Dropped(got), out, "")
                          ELSE Step([got EXCEPT !.count = @ + 1],
                                    FileOf(out.data \o Dumps(simplified.ret)
                                           \o <<NL>>),
                                    "")

(***************************************************************************)
(* The records simplify_record is applied to: any of the three top-level   *)
(* keys of a log record present or not, any event name or none, up to      *)
(* MaxMissing of the level-3 attributes missing, an extra attribute or not.*)
(***************************************************************************)
MaxMissing == 1

MaxLevel == 4

\* the levels tried: the four of the program and one beyond at either end
Levels == (0 - 1)..MaxLevel

SampleValue(key) ==
    CASE key = "event.timestamp" -> Str("t1")
      [] key = "model"           -> Str("model-a")
      [] key = "session.id"      -> Str("s1")
      [] key = "duration_ms"     -> Num(100)
      [] key = "extra_attr"      -> Str("x")
      [] OTHER                   -> Num(10)

AttributeOrder ==
    << "event.name", "event.timestamp", "duration_ms", "input_token_count",
       "output_token_count", "cached_content_token_count",
       "thoughts_token_count", "total_token_count", "tool_token_count",
       "model", "session.id", "extra_attr" >>

EventNames == {API_RESPONSE, API_REQUEST, Str("gemini_cli.start_up"), None}

\* an attributes dict with the given event name (None: no event.name key)
\* and without the keys of `missing`
MakeAttributes(name, missing) ==
    LET Kept(key) == key \notin missing /\ (key = "event.name" => name # None)
        keys == SelectSeq(AttributeOrder, Kept)
    IN  Obj([i \in 1..Len(keys) |->
               Item(keys[i], IF keys[i] = "event.name" THEN name
                             ELSE SampleValue(keys[i]))])

MissingSets ==
    {D \in SUBSET (Keys(Obj([i \in 1..Len(AttributeOrder) |->
                               Item(AttributeOrder[i], None)])) \ {"event.name"}) :
        Cardinality(D \ {"extra_attr"}) <= MaxMissing}

AttributeDicts ==
    {MakeAttributes(name, D) : name \in EventNames, D \in MissingSets}

MakeRecord(attributes, hasBody, hasOther) ==
    Obj((IF attributes = None THEN <<>> ELSE << Item("attributes", attributes) >>)
        \o (IF hasBody THEN << Item("_body", Str("body")) >> ELSE <<>>)
        \o (IF hasOther THEN << Item("other_field", Str("o")) >> ELSE <<>>))

Records ==
    {MakeRecord(a, b, o) : a \in AttributeDicts \cup {None},
                           b \in BOOLEAN, o \in BOOLEAN}

NoOutcome == Outcome("", None, None)

NoChain == [level |-> 0, out |-> NoOutcome]

\* the simplifier and the cost calculator at rest
\* line 119: defaultdict(UsageStats), no bucket yet
EmptyUsage == [key \in {} |-> 0]

\* lines 119-121: the locals of process_log_file before the first entry;
\* cursor is the line orjsonl.stream yields next
NoStats ==
    [usage |-> EmptyUsage, count |-> 0, encountered_errors |-> FALSE, cursor |-> 1]

\* run_log_simplification, not called: the input file (jsonl tells whether
\* its name ends in .jsonl), the temp file, the archive folder, the clock,
\* the arguments and the outcome
NoJob ==
    [jsonl |-> TRUE, file |-> Absent, temp |-> Absent, archive |-> NoArchive,
     now |-> 0, level |-> 0, disable_archiving |-> FALSE, status |-> "idle"]

\* get_price_spec, not called: whether PRICE_CACHE_PATH is set, the cache
\* file, its age (time.time() - mtime), update_interval_seconds, what the
\* URL gives, what the disk does with a write, and the outcome
NoPricing ==
    [configured |-> FALSE, cache |-> Absent, age |-> 0, interval |-> 0,
     remote |-> None, disk |-> "ok", fetches |-> 0, status |-> "idle",
     value |-> None]

SimplifyIdle ==
    /\ record = None
    /\ level = 0
    /\ result = NoOutcome
    /\ chained = NoChain

CostIdle ==
    /\ event = None
    /\ price_spec = None
    /\ cost = 0

TailIdle ==
    /\ output = Absent
    /\ chunk = chunk_size
    /\ scan = NoScan

ConvertIdle ==
    /\ source = <<>>
    /\ input = Absent
    /\ archive = NoArchive
    /\ now = 0
    /\ run = NoRun
    /\ runs = <<>>

StatsIdle ==
    /\ log = Absent
    /\ timezone = 0
    /\ stats = NoStats
    /\ exit_code = 0

JobIdle == job = NoJob

PricingIdle == pricing = NoPricing

InitSimplify ==
    /\ pc = "ready"
    /\ record \in Records
    /\ level \in Levels
    /\ result = NoOutcome
    /\ chained = NoChain
    /\ CostIdle
    /\ TailIdle
    /\ ConvertIdle
    /\ StatsIdle
    /\ JobIdle
    /\ PricingIdle

\* result = simplify_record(record, level)
Simplify ==
    /\ pc = "ready"
    /\ result' = simplify_record(record, level)
    /\ pc' = "done"
    /\ UNCHANGED <<record, level, chained, cost_vars, tail_vars, convert_vars, stats_vars, job_vars, pricing_vars>>

\* simplify_record(result, L2) for a higher level L2, on a retained record
SimplifyOutput ==
    /\ pc = "done"
    /\ result.exc = ""
    /\ result.ret # None
    /\ \E L2 \in (level + 1)..3 :
          chained' = [level |-> L2, out |-> simplify_record(result.ret, L2)]
    /\ pc' = "chained"
    /\ UNCHANGED <<record, level, result, cost_vars, tail_vars, convert_vars, stats_vars, job_vars, pricing_vars>>

NextSimplify == Simplify \/ SimplifyOutput

SpecSimplify == InitSimplify /\ [][NextSimplify]_vars

(***************************************************************************)
(* Properties of simplify_record                                           *)
(***************************************************************************)
Retained(outcome) == outcome.exc = "" /\ outcome.ret # None

\* the record passes the event filter of levels 1 and 2
PassesLevel1(rec) ==
    /\ Has(rec, "attributes")
    /\ Has(Get(rec, "attributes"), "event.name")
    /\ Get(Get(rec, "attributes"), "event.name")
          \in {Str("gemini_cli.api_response"), Str("gemini_cli.api_request")}

ElevenKeys ==
    {"event.timestamp", "duration_ms", "input_token_count",
     "output_token_count", "cached_content_token_count",
     "thoughts_token_count", "total_token_count", "tool_token_count",
     "model", "session.id", "event.name"}

\* C5: simplify_record(r, 0) returns r unchanged for every record r, also
\* one without an attributes map or without event.name.
C5_Identity ==
    (pc = "done" /\ level = 0) =>
        /\ result.exc = ""
        /\ result.ret = record
        /\ result.arg = record

C5_Witness ==
    /\ pc = "done" /\ level = 0
    /\ ~Has(record, "attributes")
    /\ result.ret = record

\* C6: at level 1 a record is returned if and only if it has an attributes
\* map whose event.name is gemini_cli.api_response or gemini_cli.api_request;
\* it is then returned unchanged; otherwise None is returned, and nothing
\* is raised.
C6_Level1Filter ==
    (pc = "done" /\ level = 1) =>
        /\ result.exc = ""
        /\ (result.ret # None) <=> PassesLevel1(record)
        /\ (result.ret # None) => result.ret = record

C6_Witness ==
    /\ pc = "done" /\ level = 1
    /\ PassesLevel1(record)
    /\ Get(Get(record, "attributes"), "event.name") = Str("gemini_cli.api_request")
    /\ Has(record, "other_field")
    /\ result.ret = record

\* C7: at level 2 a record that passes the level-1 filter comes back with
\* exactly the two top-level keys attributes (the whole map) and _body
\* (as it was); without a _body the result is None, not an exception.
C7_Level2Reshape ==
    (pc = "done" /\ level = 2 /\ PassesLevel1(record)) =>
        /\ result.exc = ""
        /\ Has(record, "_body") =>
              /\ result.ret.ty = "obj"
              /\ Len(result.ret.m) = 2
              /\ Keys(result.ret) = {"attributes", "_body"}
              /\ Get(result.ret, "attributes") = Get(record, "attributes")
              /\ Get(result.ret, "_body") = Get(record, "_body")
        /\ ~Has(record, "_body") => result.ret = None

C7_Witness ==
    /\ pc = "done" /\ level = 2
    /\ PassesLevel1(record)
    /\ Has(record, "_body") /\ Has(record, "other_field")
    /\ Has(Get(record, "attributes"), "extra_attr")
    /\ Keys(result.ret) = {"attributes", "_body"}

C9_Monotone ==
    /\ (pc = "done" /\ level \in 1..3 /\ Retained(result)) =>
          \A L1 \in 0..(level - 1) : Retained(simplify_record(record, L1))
    /\ (pc = "chained" /\ Retained(chained.out)) =>
          /\ level < chained.level
          /\ Retained(simplify_record(record, level))
          /\ Retained(simplify_record(record, chained.level))

C9_Witness ==
    /\ pc = "chained"
    /\ level = 1 /\ chained.level = 3
    /\ Retained(chained.out)

\* C25: simplify_record has no side effect on its argument: for every record
\* and every level 0..3 the record object the caller passed, its attributes
\* map included, is after the call what it was before, whether a record or
\* None is returned.
C25_NoSideEffect ==
    (pc = "done" /\ level \in 0..3) => result.arg = record

(***************************************************************************)
(* calculate_token_usage.py: calculate_cost.  Rates and costs are whole     *)
(* numbers of nano-dollars (1e-6 USD per token is 1000).                   *)
(***************************************************************************)
\* line 84: the tier threshold
TierThreshold == 200000

\* attributes.get(key) or 0
OrZero(d, key) ==
    LET v == GetOr(d, key, None) IN IF Truthy(v) THEN v.n ELSE 0

\* price_spec.get(model, {}): a model that is no string is no key
ModelPriceSpec(price_spec_, model) ==
    IF model.ty = "str" /\ Has(price_spec_, model.s)
    THEN Get(price_spec_, model.s)
    ELSE Obj(<<>>)

\* model_price_spec.get(key, default)
RateOr(model_price_spec, key, default) ==
    IF Has(model_price_spec, key) THEN Get(model_price_spec, key).n ELSE default

\* a formula that clamps the uncached input at zero
CostFormulaClamped(input_tokens, output_tokens, cached_tokens, thoughts_tokens, input_rate, output_rate, cached_rate) ==
    ((IF input_tokens > cached_tokens THEN input_tokens - cached_tokens ELSE 0)
        * input_rate)
    + ((output_tokens + thoughts_tokens) * output_rate)
    + (cached_tokens * cached_rate)

\* lines 92-96
CostFormula(input_tokens, output_tokens, cached_tokens, thoughts_tokens, input_rate, output_rate, cached_rate) ==
    ((input_tokens - cached_tokens) * input_rate)
    + ((output_tokens + thoughts_tokens) * output_rate)
    + (cached_tokens * cached_rate)

\* a tier that starts at the threshold itself
TieredFromThreshold(input_tokens) == input_tokens >= TierThreshold

\* line 84: input_tokens > 200000
Tiered(input_tokens) == input_tokens > TierThreshold

calculate_cost(attributes_, price_spec_) ==
    LET model == GetOr(attributes_, "model", Str("unknown"))
        input_tokens == OrZero(attributes_, "input_token_count")
        output_tokens == OrZero(attributes_, "output_token_count")
        cached_tokens == OrZero(attributes_, "cached_content_token_count")
        thoughts_tokens == OrZero(attributes_, "thoughts_token_count")
        model_price_spec == ModelPriceSpec(price_spec_, model)
        input_base == RateOr(model_price_spec, "input_cost_per_token", 0)
        output_base == RateOr(model_price_spec, "output_cost_per_token", 0)
        cached_base == RateOr(model_price_spec, "cache_read_input_token_cost", 0)
        tiered == Tiered(input_tokens)
        input_cost_per_token ==
            IF tiered
            THEN RateOr(model_price_spec,
                        "input_cost_per_token_above_200k_tokens", input_base)
            ELSE input_base
        output_cost_per_token ==
            IF tiered
            THEN RateOr(model_price_spec,
                        "output_cost_per_token_above_200k_tokens", output_base)
            ELSE output_base
        cached_cost_per_token ==
            IF tiered
            THEN RateOr(model_price_spec,
                        "cache_read_input_token_cost_above_200k_tokens", cached_base)
            ELSE cached_base
    IN  CostFormula(input_tokens, output_tokens, cached_tokens, thoughts_tokens,
                    input_cost_per_token, output_cost_per_token,
                    cached_cost_per_token)

(***************************************************************************)
(* The events and price specifications calculate_cost is applied to.       *)
(***************************************************************************)
RateKeys ==
    << "input_cost_per_token", "output_cost_per_token",
       "cache_read_input_token_cost",
       "input_cost_per_token_above_200k_tokens",
       "output_cost_per_token_above_200k_tokens",
       "cache_read_input_token_cost_above_200k_tokens" >>

\* the rates of the tests' price_spec fixture, in nano-dollars per token
SampleRate(key) ==
    CASE key = "input_cost_per_token"                          -> 1000
      [] key = "output_cost_per_token"                         -> 2000
      [] key = "cache_read_input_token_cost"                   -> 500
      [] key = "input_cost_per_token_above_200k_tokens"        -> 1500
      [] key = "output_cost_per_token_above_200k_tokens"       -> 2500
      [] key = "cache_read_input_token_cost_above_200k_tokens" -> 750

\* a pricing record with the rates of `present`
Pricing(present) ==
    LET keys == SelectSeq(RateKeys, LAMBDA key : key \in present)
    IN  Obj([i \in 1..Len(keys) |-> Item(keys[i], Num(SampleRate(keys[i])))])

RateKeySets == SUBSET {RateKeys[i] : i \in 1..Len(RateKeys)}

\* model-a is always priced; "unknown" is priced or not
PriceSpecs ==
    {Obj(<< Item("model-a", Pricing(present)) >>
         \o (IF withUnknown
             THEN << Item("unknown", Pricing({"input_cost_per_token"})) >>
             ELSE <<>>)) :
        present \in RateKeySets, withUnknown \in BOOLEAN}

\* an optional attribute: None under `absent` stands for a missing key
Optional(key, value, absent) ==
    IF absent THEN <<>> ELSE << Item(key, value) >>

Models == {Str("model-a"), Str("model-b")}

InputCounts == {Num(0), Num(1000), Num(TierThreshold), Num(TierThreshold + 1)}

CachedCounts == {Num(400), Num(2000)}

CostEvents ==
    {Obj(Optional("model", m.v, m.absent)
         \o Optional("input_token_count", i.v, i.absent)
         \o Optional("output_token_count", o.v, o.absent)
         \o Optional("cached_content_token_count", c.v, c.absent)
         \o Optional("thoughts_token_count", t.v, t.absent)) :
        m \in {[v |-> x, absent |-> FALSE] : x \in Models}
                \cup {[v |-> None, absent |-> TRUE]},
        i \in {[v |-> x, absent |-> FALSE] : x \in InputCounts \cup {None}}
                \cup {[v |-> None, absent |-> TRUE]},
        o \in {[v |-> Num(500), absent |-> FALSE], [v |-> None, absent |-> TRUE]},
        c \in {[v |-> x, absent |-> FALSE] : x \in CachedCounts \cup {None}}
                \cup {[v |-> None, absent |-> TRUE]},
        t \in {[v |-> Num(50), absent |-> FALSE], [v |-> None, absent |-> FALSE]}}

InitCost ==
    /\ pc = "priced"
    /\ event \in CostEvents
    /\ price_spec \in PriceSpecs
    /\ cost = 0
    /\ SimplifyIdle
    /\ TailIdle
    /\ ConvertIdle
    /\ StatsIdle
    /\ JobIdle
    /\ PricingIdle

\* cost = calculate_cost(attributes, price_spec)
CalculateCost ==
    /\ pc = "priced"
    /\ cost' = calculate_cost(event, price_spec)
    /\ pc' = "costed"
    /\ UNCHANGED <<simplify_vars, event, price_spec, tail_vars, convert_vars, stats_vars, job_vars, pricing_vars>>

NextCost == CalculateCost

SpecCost == InitCost /\ [][NextCost]_vars

(***************************************************************************)
(* Properties of calculate_cost                                            *)
(***************************************************************************)
\* a token count of the event: 0 when the key is absent or null
Tokens(key) ==
    IF Has(event, key) /\ Get(event, key) # None THEN Get(event, key).n ELSE 0

\* the pricing record of the event's model: that of "unknown" without a model
EventPricing ==
    LET name == IF Has(event, "model") THEN Get(event, "model").s ELSE "unknown"
    IN  IF Has(price_spec, name) THEN Get(price_spec, name) ELSE Obj(<<>>)

\* the rate applied: the above-200k variant when the event's input exceeds
\* the threshold and the variant is present, else the base rate, else 0
Rate(base, above) ==
    IF Tokens("input_token_count") > 200000 /\ Has(EventPricing, above)
    THEN Get(EventPricing, above).n
    ELSE IF Has(EventPricing, base) THEN Get(EventPricing, base).n ELSE 0

\* C10: calculate_cost returns (input - cached) * input_rate
\* + (output + thoughts) * output_rate + cached * cached_rate, absent or
\* null token counts being 0, the model defaulting to "unknown", a missing
\* rate being 0; nothing is clamped, so cached > input contributes a
\* negative term.
C10_CostFormula ==
    (pc = "costed") =>
        cost = (Tokens("input_token_count") - Tokens("cached_content_token_count"))
                 * Rate("input_cost_per_token",
                        "input_cost_per_token_above_200k_tokens")
             + (Tokens("output_token_count") + Tokens("thoughts_token_count"))
                 * Rate("output_cost_per_token",
                        "output_cost_per_token_above_200k_tokens")
             + Tokens("cached_content_token_count")
                 * Rate("cache_read_input_token_cost",
                        "cache_read_input_token_cost_above_200k_tokens")

C10_Witness ==
    /\ pc = "costed"
    /\ Tokens("cached_content_token_count") > Tokens("input_token_count")
    /\ Tokens("input_token_count") > 0
    /\ cost < 0

\* the base rate of the event's model, 0 when the price spec has none
BaseRate(base) ==
    IF Has(EventPricing, base) THEN Get(EventPricing, base).n ELSE 0

\* the above-200k rate of the event's model, the base rate when the price
\* spec has none
AboveRate(base, above) ==
    IF Has(EventPricing, above) THEN Get(EventPricing, above).n ELSE BaseRate(base)

\* the cost of all the event's tokens at the three rates given
CostAt(input_rate, output_rate, cached_rate) ==
    (Tokens("input_token_count") - Tokens("cached_content_token_count")) * input_rate
    + (Tokens("output_token_count") + Tokens("thoughts_token_count")) * output_rate
    + Tokens("cached_content_token_count") * cached_rate

\* C11: tiering is a step in the event's input_token_count: above 200000
\* each of the three rates is its above-200k variant where the price spec
\* has one and its base value otherwise; at 200000 and below only base
\* rates are used; the rates chosen price all the tokens of the event.
C11_Tiering ==
    (pc = "costed") =>
        IF Tokens("input_token_count") <= 200000
        THEN cost = CostAt(BaseRate("input_cost_per_token"),
                           BaseRate("output_cost_per_token"),
                           BaseRate("cache_read_input_token_cost"))
        ELSE cost = CostAt(AboveRate("input_cost_per_token",
                                     "input_cost_per_token_above_200k_tokens"),
                           AboveRate("output_cost_per_token",
                                     "output_cost_per_token_above_200k_tokens"),
                           AboveRate("cache_read_input_token_cost",
                                     "cache_read_input_token_cost_above_200k_tokens"))

\* above the threshold, one rate with its variant and one without
C11_Witness ==
    /\ pc = "costed"
    /\ Tokens("input_token_count") = 200001
    /\ Has(EventPricing, "input_cost_per_token_above_200k_tokens")
    /\ Has(EventPricing, "output_cost_per_token")
    /\ ~Has(EventPricing, "output_cost_per_token_above_200k_tokens")
    /\ Tokens("output_token_count") > 0
    /\ cost > 0

(***************************************************************************)
(* calculate_token_usage.py: process_log_file and the stats command.  A    *)
(* log is the sequence of its lines, each the JSON value it holds or       *)
(* Corrupt.  A date is its proleptic ordinal (date.min is day 1); a zone   *)
(* is its offset from UTC in hours.                                        *)
(***************************************************************************)
\* line 138: date.min
DateMin == 1

\* a line orjson cannot decode
Corrupt == [ty |-> "corrupt", s |-> "", n |-> 0, m |-> <<>>]

\* lines 27-36: a UsageStats with its defaults
UsageStats ==
    [input_tokens |-> 0, output_tokens |-> 0, cached_tokens |-> 0,
     thoughts_tokens |-> 0, count |-> 0, cost |-> 0]

\* line 151: the key (model, event_date)
Bucket(model, event_date) == [model |-> model, date |-> event_date]

\* datetime.fromisoformat on the strings of the logs: the day and the hour
\* (UTC) of an ISO-8601 timestamp; any other string is a ValueError
fromisoformat(text) ==
    CASE text = "2023-10-26T10:00:00+00:00" -> [ok |-> TRUE, day |-> 738819, hour |-> 10]
      [] text = "2023-10-26T23:00:00+00:00" -> [ok |-> TRUE, day |-> 738819, hour |-> 23]
      [] text = "2023-10-27T01:00:00+00:00" -> [ok |-> TRUE, day |-> 738820, hour |-> 1]
      [] text = "0001-01-01T03:00:00+00:00" -> [ok |-> TRUE, day |-> 1, hour |-> 3]
      [] OTHER -> [ok |-> FALSE, day |-> 0, hour |-> 0]

\* dt.astimezone(timezone).date(): OverflowError before datetime.min
astimezone(dt, timezone_) ==
    LET hour == dt.hour + timezone_
        day == dt.day + (IF hour < 0 THEN -1 ELSE IF hour >= 24 THEN 1 ELSE 0)
    IN  IF day < DateMin
        THEN [exc |-> "OverflowError", date |-> DateMin]
        ELSE [exc |-> "", date |-> day]

\* lines 135-147: date.min without a timestamp or when fromisoformat raises
\* ValueError; a timestamp that is no string is a TypeError, not caught here
EventDate(attributes_, timezone_) ==
    LET timestamp_str == GetOr(attributes_, "event.timestamp", None)
        dt == fromisoformat(timestamp_str.s)
    IN  IF ~Truthy(timestamp_str)
        THEN [exc |-> "", date |-> DateMin]
        ELSE IF timestamp_str.ty # "str"
        THEN [exc |-> "TypeError", date |-> DateMin]
        ELSE IF ~dt.ok
        THEN [exc |-> "", date |-> DateMin]
        ELSE astimezone(dt, timezone_)

\* int(attributes.get(key) or 0); the strings of the logs are no numbers
IntOrZero(attributes_, key) ==
    LET v == GetOr(attributes_, key, None)
    IN  IF ~Truthy(v) THEN [exc |-> "", n |-> 0]
        ELSE IF v.ty = "int" THEN [exc |-> "", n |-> v.n]
        ELSE IF v.ty = "str" THEN [exc |-> "ValueError", n |-> 0]
        ELSE [exc |-> "TypeError", n |-> 0]

\* an event test that takes requests for inference events too
IsInferenceOrRequest(event_name) == event_name \in {API_RESPONSE, API_REQUEST}

\* line 129
IsInference(event_name) == event_name = API_RESPONSE

\* an accumulation that keeps the values of the last event only
AccumulateLatest(st, key, input_tokens, output_tokens, cached_tokens, thoughts_tokens, cost_) ==
    LET new == [input_tokens    |-> input_tokens,
                output_tokens   |-> output_tokens,
                cached_tokens   |-> cached_tokens,
                thoughts_tokens |-> thoughts_tokens,
                count           |-> 1,
                cost            |-> cost_]
    IN  [st EXCEPT !.usage = [k \in DOMAIN st.usage \cup {key} |->
                                 IF k = key THEN new ELSE st.usage[k]],
                   !.count = @ + 1]

\* lines 151-158: the bucket is made if it is new, then added to
Accumulate(st, key, input_tokens, output_tokens, cached_tokens, thoughts_tokens, cost_) ==
    LET old == IF key \in DOMAIN st.usage THEN st.usage[key] ELSE UsageStats
        new == [input_tokens    |-> old.input_tokens + input_tokens,
                output_tokens   |-> old.output_tokens + output_tokens,
                cached_tokens   |-> old.cached_tokens + cached_tokens,
                thoughts_tokens |-> old.thoughts_tokens + thoughts_tokens,
                count           |-> old.count + 1,
                cost            |-> old.cost + cost_]
    IN  [st EXCEPT !.usage = [k \in DOMAIN st.usage \cup {key} |->
                                 IF k = key THEN new ELSE st.usage[k]],
                   !.count = @ + 1]

\* lines 151-156: the bucket is made if it is new and the token counts and
\* its count are added; line 157 raises and neither the cost nor the total
\* count (line 158) moves
AccumulateUpToCost(st, key, input_tokens, output_tokens, cached_tokens, thoughts_tokens) ==
    LET old == IF key \in DOMAIN st.usage THEN st.usage[key] ELSE UsageStats
        new == [input_tokens    |-> old.input_tokens + input_tokens,
                output_tokens   |-> old.output_tokens + output_tokens,
                cached_tokens   |-> old.cached_tokens + cached_tokens,
                thoughts_tokens |-> old.thoughts_tokens + thoughts_tokens,
                count           |-> old.count + 1,
                cost            |-> old.cost]
    IN  [st EXCEPT !.usage = [k \in DOMAIN st.usage \cup {key} |->
                                 IF k = key THEN new ELSE st.usage[k]]]

\* lines 71-96 on rates that may be strings: an int times a string is a
\* string, and a number plus a string raises TypeError.  The result is a
\* number, a string, or the TypeError.
CostType(attributes_, price_spec_) ==
    LET model_price_spec ==
            ModelPriceSpec(price_spec_, GetOr(attributes_, "model", Str("unknown")))
        tiered == Tiered(OrZero(attributes_, "input_token_count"))
        TypeOf(base, above) ==
            IF tiered /\ Has(model_price_spec, above)
            THEN Get(model_price_spec, above).ty
            ELSE IF Has(model_price_spec, base)
            THEN Get(model_price_spec, base).ty
            ELSE "int"
        types == {TypeOf(RateKeys[i], RateKeys[i + 3]) : i \in 1..3}
    IN  IF types = {"int"} THEN "number"
        ELSE IF types = {"str"} THEN "text"
        ELSE "TypeError"

\* an error handler that throws away what was accumulated
FailedEmpty(st) ==
    [st EXCEPT !.encountered_errors = TRUE, !.usage = EmptyUsage, !.count = 0]

\* lines 159-161: the exception is logged and the flag set
Failed(st) == [st EXCEPT !.encountered_errors = TRUE]

\* lines 124-158: one pass of the for loop on the entry the stream yields.
\* exc names the exception that ends the loop ("" for none).
ProcessEntry(st, entry, price_spec_, timezone_) ==
    LET Raise(exc_) == [st |-> Failed(st), exc |-> exc_]
        Next_(st_) == [st |-> [st_ EXCEPT !.cursor = @ + 1], exc |-> ""]
        attributes == GetOr(entry, "attributes", Obj(<<>>))
        model == GetOr(attributes, "model", Str("unknown"))
        input_tokens == IntOrZero(attributes, "input_token_count")
        output_tokens == IntOrZero(attributes, "output_token_count")
        cached_tokens == IntOrZero(attributes, "cached_content_token_count")
        thoughts_tokens == IntOrZero(attributes, "thoughts_token_count")
        event_date == EventDate(attributes, timezone_)
        counts == <<input_tokens, output_tokens, cached_tokens, thoughts_tokens>>
        bad == {i \in 1..4 : counts[i].exc # ""}
        cost_type == CostType(attributes, price_spec_)
    IN  IF entry = Corrupt THEN Raise("JSONDecodeError")
        ELSE IF entry.ty # "obj" THEN Raise("AssertionError")
        ELSE IF attributes.ty # "obj" THEN Raise("AttributeError")
        ELSE IF ~IsInference(GetOr(attributes, "event.name", None)) THEN Next_(st)
        ELSE IF bad # {} THEN Raise(counts[CHOOSE i \in bad : \A j \in bad : i <= j].exc)
        ELSE IF event_date.exc # "" THEN Raise(event_date.exc)
        ELSE IF model.ty = "obj" THEN Raise("TypeError")
        ELSE IF cost_type = "TypeError" THEN Raise("TypeError")
        ELSE IF cost_type = "text"
        THEN [st |-> Failed(AccumulateUpToCost(st, Bucket(model, event_date.date),
                                               input_tokens.n, output_tokens.n,
                                               cached_tokens.n, thoughts_tokens.n)),
              exc |-> "TypeError"]
        ELSE Next_(Accumulate(st, Bucket(model, event_date.date),
                              input_tokens.n, output_tokens.n, cached_tokens.n,
                              thoughts_tokens.n, calculate_cost(attributes, price_spec_)))

\* UsageStats.__add__, lines 38-46
Plus(a, b) ==
    [input_tokens    |-> a.input_tokens + b.input_tokens,
     output_tokens   |-> a.output_tokens + b.output_tokens,
     cached_tokens   |-> a.cached_tokens + b.cached_tokens,
     thoughts_tokens |-> a.thoughts_tokens + b.thoughts_tokens,
     count           |-> a.count + b.count,
     cost            |-> a.cost + b.cost]

\* the stats command after process_log_file, lines 332-385: with no event
\* counted it returns (exit code 0); else it prints the tables and raises
\* typer.Exit(1) when errors were met
ExitCode(count_, encountered_errors_) ==
    IF count_ = 0 THEN 0 ELSE IF encountered_errors_ THEN 1 ELSE 0

(***************************************************************************)
(* The logs the stats command is applied to: up to MaxEntries lines.       *)
(***************************************************************************)
MaxEntries == 3

\* an api_response; None as model or timestamp stands for a missing key
LogResponse(model, input_tokens, timestamp) ==
    Obj(<< Item("attributes",
                Obj(<< Item("event.name", API_RESPONSE) >>
                    \o Optional("model", model, model = None)
                    \o << Item("input_token_count", input_tokens),
                          Item("output_token_count", Num(500)) >>
                    \o Optional("event.timestamp", timestamp, timestamp = None))) >>)

\* an api_response with more cached tokens than input tokens
CachedOverInput ==
    Obj(<< Item("attributes",
                Obj(<< Item("event.name", API_RESPONSE),
                       Item("model", Str("model-a")),
                       Item("input_token_count", Num(100)),
                       Item("cached_content_token_count", Num(2000)),
                       Item("event.timestamp", Str("2023-10-26T10:00:00+00:00")) >>)) >>)

LogEntries ==
    { LogResponse(Str("model-a"), Num(1000), Str("2023-10-26T10:00:00+00:00")),
      LogResponse(Str("model-a"), Num(2000), Str("2023-10-26T23:00:00+00:00")),
      LogResponse(Str("model-b"), Num(100), Str("2023-10-27T01:00:00+00:00")),
      LogResponse(Str("model-a"), Num(100), None),
      LogResponse(None, Num(100), Str("not-a-date")),
      LogResponse(Str("model-a"), None, Str("")),
      LogResponse(Str("model-a"), Num(100), Num(1698314400)),
      LogResponse(Str("model-a"), Num(100), Str("0001-01-01T03:00:00+00:00")),
      LogResponse(Str("model-a"), Str("abc"), Str("2023-10-26T10:00:00+00:00")),
      CachedOverInput,
      Obj(<< Item("attributes",
                  Obj(<< Item("event.name", API_REQUEST),
                         Item("model", Str("model-a")),
                         Item("input_token_count", Num(1000)),
                         Item("event.timestamp", Str("2023-10-26T10:00:00+00:00")) >>)) >>),
      Obj(<< Item("attributes", Obj(<< Item("event.name", Str("other_event")) >>)) >>),
      Obj(<< Item("valid", Str("json")) >>),
      Obj(<< Item("attributes", None) >>),
      Str("text"),
      Corrupt }

\* UTC-5 (Etc/GMT+5), UTC, UTC+9
Zones == {-5, 0, 9}

\* the price_spec fixture of the tests
StatsPriceSpec ==
    Obj(<< Item("model-a", Pricing({RateKeys[i] : i \in 1..Len(RateKeys)})) >>)

\* a price specification whose rates were written as strings
TextPriceSpec ==
    Obj(<< Item("model-a",
                Obj([i \in 1..3 |-> Item(RateKeys[i], Str("0.001"))])) >>)

InitStats ==
    /\ pc = "stats"
    /\ log \in {Absent} \cup
               {FileOf(entries) :
                   entries \in UNION {[1..n -> LogEntries] : n \in 0..MaxEntries}}
    /\ timezone \in Zones
    /\ stats = NoStats
    /\ exit_code = 0
    /\ event = None /\ cost = 0
    /\ price_spec \in {StatsPriceSpec, TextPriceSpec}
    /\ SimplifyIdle
    /\ TailIdle
    /\ ConvertIdle
    /\ JobIdle
    /\ PricingIdle

\* main, lines 315-330: without the file the command prints and returns
StatsStart ==
    /\ pc = "stats"
    /\ IF log.exists
       THEN pc' = "processing" /\ UNCHANGED exit_code
       ELSE pc' = "exited" /\ exit_code' = 0
    /\ UNCHANGED <<log, timezone, stats, simplify_vars, cost_vars, tail_vars, convert_vars, job_vars, pricing_vars>>

\* process_log_file: one pass of the for loop
StatsEntry ==
    /\ pc = "processing"
    /\ stats.cursor <= Len(log.data)
    /\ LET step == ProcessEntry(stats, log.data[stats.cursor], price_spec, timezone)
       IN  /\ stats' = step.st
           /\ pc' = IF step.exc = "" THEN "processing" ELSE "processed"
    /\ UNCHANGED <<log, timezone, exit_code, simplify_vars, cost_vars, tail_vars, convert_vars, job_vars, pricing_vars>>

\* process_log_file, line 163: the stream is at its end
StatsReturn ==
    /\ pc = "processing"
    /\ stats.cursor > Len(log.data)
    /\ pc' = "processed"
    /\ UNCHANGED <<stats_vars, simplify_vars, cost_vars, tail_vars, convert_vars, job_vars, pricing_vars>>

\* main, lines 332-385
StatsReport ==
    /\ pc = "processed"
    /\ exit_code' = ExitCode(stats.count, stats.encountered_errors)
    /\ pc' = "exited"
    /\ UNCHANGED <<log, timezone, stats, simplify_vars, cost_vars, tail_vars, convert_vars, job_vars, pricing_vars>>

NextStats == StatsStart \/ StatsEntry \/ StatsReturn \/ StatsReport

SpecStats == InitStats /\ [][NextStats]_vars

(***************************************************************************)
(* Properties of process_log_file and the stats command                    *)
(***************************************************************************)
\* the entry is a record whose attributes["event.name"] is api_response
IsResponseEntry(entry) ==
    /\ entry.ty = "obj"
    /\ Has(entry, "attributes")
    /\ Get(entry, "attributes").ty = "obj"
    /\ Has(Get(entry, "attributes"), "event.name")
    /\ Get(Get(entry, "attributes"), "event.name") = API_RESPONSE

\* the entry the loop takes next
Current == log.data[stats.cursor]

InLoop == pc = "processing" /\ stats.cursor <= Len(log.data)

Returned == pc \in {"processed", "exited"} /\ log.exists

\* the entries the loop has gone through without an exception
Passed == 1..(stats.cursor - 1)

C12_CountsResponses ==
    (pc \in {"processing", "processed", "exited"}) =>
        stats.count = Cardinality({i \in Passed : IsResponseEntry(log.data[i])})

C12_Step ==
    (InLoop /\ ~IsResponseEntry(Current)) =>
        (stats'.usage = stats.usage /\ stats'.count = stats.count)

\* C12: only api_response records contribute: a pass of the loop on any
\* other entry (api_request, another event, no attributes) leaves every
\* bucket and the count as they were, and the count is the number of
\* api_response records the loop has gone through.
C12_OnlyResponses == [](C12_CountsResponses) /\ [][C12_Step]_vars

C12_Witness ==
    /\ pc = "processed"
    /\ ~stats.encountered_errors
    /\ Len(log.data) = 3
    /\ stats.count = 1
    /\ IsResponseEntry(log.data[2])
    /\ log.data[1].ty = "obj" /\ Has(log.data[1], "attributes")
    /\ GetOr(Get(log.data[1], "attributes"), "event.name", None) = API_REQUEST
    /\ log.data[3].ty = "obj" /\ ~Has(log.data[3], "attributes")

\* what the entry at line i adds when it is processed on its own
Alone(i) == ProcessEntry(NoStats, log.data[i], price_spec, timezone)

Raises(i) == Alone(i).exc # ""

\* the sum for bucket key of what the first n entries add
RECURSIVE Total(_, _)
Total(n, key) ==
    IF n = 0 THEN UsageStats
    ELSE Plus(Total(n - 1, key),
              IF key \in DOMAIN Alone(n).st.usage
              THEN Alone(n).st.usage[key] ELSE UsageStats)

\* the statistics of the first n entries
Accumulated(n) ==
    [key \in UNION {DOMAIN Alone(i).st.usage : i \in 1..n} |-> Total(n, key)]

\* C13: aggregation is fail-fast: when a record raises, the pass stops at
\* it and process_log_file returns with had_errors set; it is the first
\* record that raises, and the statistics and the count returned are those
\* of the records before it: no later record contributes.  Without such a
\* record every entry is accumulated and had_errors is not set.
C13_FailFast ==
    Returned =>
        /\ \A i \in Passed : ~Raises(i)
        /\ stats.usage = Accumulated(stats.cursor - 1)
        /\ stats.count = Cardinality({i \in Passed : Alone(i).st.count = 1})
        /\ IF stats.encountered_errors
           THEN stats.cursor <= Len(log.data) /\ Raises(stats.cursor)
           ELSE stats.cursor = Len(log.data) + 1

C13_Witness ==
    /\ pc = "processed"
    /\ stats.encountered_errors
    /\ stats.cursor = 2
    /\ Len(log.data) = 3
    /\ stats.count = 1
    /\ IsResponseEntry(log.data[3]) /\ ~Raises(3)

\* the timestamp of an api_response entry, None when the key is missing
TimestampAt(entry) == GetOr(Get(entry, "attributes"), "event.timestamp", None)

\* the timestamp is missing (no key, null, empty) or cannot be parsed (no
\* string, or a string that is no ISO-8601 timestamp)
NoDate(entry) ==
    \/ ~Truthy(TimestampAt(entry))
    \/ TimestampAt(entry).ty # "str"
    \/ ~fromisoformat(TimestampAt(entry).s).ok

\* every token count of the entry is absent, null or an integer
CountsFine(entry) ==
    \A key \in {"input_token_count", "output_token_count",
                "cached_content_token_count", "thoughts_token_count"} :
        GetOr(Get(entry, "attributes"), key, None).ty \in {"null", "int"}

\* the counts of the sentinel buckets, by model
SentinelCounts(usage) ==
    [key \in {k \in DOMAIN usage : k.date = DateMin} |-> usage[key].count]

\* C14: an api_response whose event.timestamp is missing or unparsable does
\* not end the pass: it is counted and accumulated into (model, date.min);
\* and that bucket is distinct from every real date bucket: an event whose
\* timestamp parses is not accumulated into it.
C14_Step ==
    (InLoop /\ IsResponseEntry(Current) /\ CountsFine(Current)) =>
        IF NoDate(Current)
        THEN /\ ~stats'.encountered_errors
             /\ stats'.count = stats.count + 1
             /\ \E key \in DOMAIN stats'.usage :
                   /\ key.date = DateMin
                   /\ stats'.usage[key].count
                        = (IF key \in DOMAIN stats.usage
                           THEN stats.usage[key].count ELSE 0) + 1
        ELSE SentinelCounts(stats'.usage) = SentinelCounts(stats.usage)

C14_SentinelBucket == [][C14_Step]_vars

\* C15: every fatal condition of the stats command gives a non-zero exit
\* code: the log file does not exist, or process_log_file reports
\* had_errors, whatever the number of events counted.
C15_NonZeroExit ==
    (pc = "exited" /\ (~log.exists \/ stats.encountered_errors)) => exit_code # 0

\* the token count of an entry under key, 0 when absent or no integer
CountOf(entry, key) ==
    LET v == GetOr(GetOr(entry, "attributes", Obj(<<>>)), key, None)
    IN  IF v.ty = "int" THEN v.n ELSE 0

\* the cached tokens of the event are part of its input tokens
WithinInput(entry) ==
    IsResponseEntry(entry) =>
        CountOf(entry, "cached_content_token_count")
            <= CountOf(entry, "input_token_count")

CountFields ==
    {"input_tokens", "output_tokens", "cached_tokens", "thoughts_tokens", "count"}

\* no field of fields is lower in a bucket after the step than before it
NotLowered(fields) ==
    \A key \in DOMAIN stats.usage :
        /\ key \in DOMAIN stats'.usage
        /\ \A f \in fields : stats'.usage[key][f] >= stats.usage[key][f]

\* a merge (UsageStats.__add__) of two buckets lowers no field of fields
MergeNotLower(fields) ==
    \A a, b \in DOMAIN stats.usage :
        \A f \in fields :
            Plus(stats.usage[a], stats.usage[b])[f] >= stats.usage[a][f]

CostNonNegative == \A key \in DOMAIN stats.usage : stats.usage[key].cost >= 0

\* C26 as stated: for events with non-negative token counts and a price
\* spec with non-negative rates (every log and the price spec here), no
\* token field, count or cost of a bucket is lowered by a step of
\* process_log_file or by a merge, and cost stays non-negative.
C26_StepAnyEvent ==
    (pc = "processing") => NotLowered(CountFields \cup {"cost"})

C26_OnlyIncreaseAnyEvent ==
    /\ [](CostNonNegative /\ MergeNotLower(CountFields \cup {"cost"}))
    /\ [][C26_StepAnyEvent]_vars

C26_Step ==
    (pc = "processing") =>
        /\ NotLowered(CountFields)
        /\ (InLoop /\ WithinInput(Current)) => NotLowered({"cost"})

C26_Costs ==
    (pc \in {"processing", "processed", "exited"}
     /\ \A i \in Passed : WithinInput(log.data[i])) =>
        (CostNonNegative /\ MergeNotLower({"cost"}))

\* C26: for events with non-negative token counts and a price spec with
\* non-negative rates, no token field and no count of a bucket is ever
\* lower after a step of process_log_file, or after a field-wise merge,
\* than before; the cost of a bucket is not lowered by an event whose
\* cached tokens do not exceed its input tokens, and as long as every
\* event had that property every cost is non-negative.
C26_OnlyIncrease ==
    /\ [](MergeNotLower(CountFields) /\ C26_Costs)
    /\ [][C26_Step]_vars

C26_Witness ==
    /\ pc = "processed"
    /\ ~stats.encountered_errors
    /\ Len(log.data) = 3
    /\ \A i \in 1..3 : IsResponseEntry(log.data[i]) /\ WithinInput(log.data[i])
    /\ \E key \in DOMAIN stats.usage :
          stats.usage[key].count = 3 /\ stats.usage[key].cost > 0

\* the sum of the buckets of usage under keys (UsageStats.__add__)
RECURSIVE PlusAll(_, _)
PlusAll(keys, usage) ==
    IF keys = {} THEN UsageStats
    ELSE LET k == CHOOSE k \in keys : TRUE
         IN  Plus(usage[k], PlusAll(keys \ {k}, usage))

\* main, lines 358-360: daily_costs[day] += stats.cost
daily_costs(usage) ==
    [day \in {k.date : k \in DOMAIN usage} |->
        PlusAll({k \in DOMAIN usage : k.date = day}, usage).cost]

\* main, lines 368-372: the footer of the table of daily costs
RECURSIVE total_daily_cost(_, _)
total_daily_cost(days, costs) ==
    IF days = {} THEN 0
    ELSE LET day == CHOOSE day \in days : TRUE
         IN  costs[day] + total_daily_cost(days \ {day}, costs)

\* main, lines 376-378: overall_usage[model] += stats
overall_usage(usage) ==
    [model \in {k.model : k \in DOMAIN usage} |->
        PlusAll({k \in DOMAIN usage : k.model = model}, usage)]

\* the three views of main agree with the buckets
C29_Conserved ==
    (pc \in {"processing", "processed", "exited"}) =>
        LET usage == stats.usage
            all == PlusAll(DOMAIN usage, usage)
            overall == overall_usage(usage)
            daily == daily_costs(usage)
        IN  /\ stats.count = all.count
            /\ \A key \in DOMAIN usage : usage[key].count >= 1
            /\ total_daily_cost(DOMAIN daily, daily) = all.cost
            /\ PlusAll(DOMAIN overall, overall) = all

\* what a record adds to its bucket when it adds all of it
Contribution(attributes_) ==
    [input_tokens    |-> OrZero(attributes_, "input_token_count"),
     output_tokens   |-> OrZero(attributes_, "output_token_count"),
     cached_tokens   |-> OrZero(attributes_, "cached_content_token_count"),
     thoughts_tokens |-> OrZero(attributes_, "thoughts_token_count"),
     count           |-> 1,
     cost            |-> calculate_cost(attributes_, price_spec)]

\* a record adds all of its contribution to one bucket, and one to the
\* total count, or changes no bucket and no count
C29_Step ==
    InLoop =>
        \/ stats'.usage = stats.usage /\ stats'.count = stats.count
        \/ /\ stats'.count = stats.count + 1
           /\ \E key \in DOMAIN stats'.usage :
                 /\ stats'.usage[key] =
                       Plus(IF key \in DOMAIN stats.usage
                            THEN stats.usage[key] ELSE UsageStats,
                            Contribution(Get(Current, "attributes")))
                 /\ \A k \in DOMAIN stats'.usage \ {key} :
                       k \in DOMAIN stats.usage /\ stats'.usage[k] = stats.usage[k]
                 /\ DOMAIN stats.usage \subseteq DOMAIN stats'.usage

\* C29: aggregation conserves: after every record process_log_file goes
\* through, the pass ending on an error included, the total event count is
\* the sum of the counts of the (model, date) buckets, every bucket has a
\* count of at least 1, and a record adds to the token fields, the count
\* and the cost of one bucket, or to nothing; so the daily cost totals and
\* the per-model grand totals of main sum to the totals of the buckets.
C29_Conservation == [](C29_Conserved) /\ [][C29_Step]_vars

(***************************************************************************)
(* The JSONL files get_last_timestamp is applied to: up to MaxLines lines, *)
(* each well-formed with a timestamp, truncated, no JSON, blank, empty, or *)
(* JSON without a timestamp; an empty last line is a trailing newline.     *)
(***************************************************************************)
MaxLines == 3

MaxChunk == 3

TailRecord(timestamp) ==
    Obj(<< Item("attributes", Obj(<< Item("event.timestamp", Str(timestamp)) >>)) >>)

TruncatedLine == SubSeq(Dumps(TailRecord("t2")), 1, 4)

JunkLine == <<LB, JUNK>>

TailLines ==
    { Dumps(TailRecord("t1")), Dumps(TailRecord("t2")), TruncatedLine,
      JunkLine, <<SP>>, <<>>, Dumps(Obj(<< Item("attributes", Obj(<<>>)) >>)) }

TailFiles ==
    {Absent} \cup
    {FileOf(Join(lines)) :
        lines \in UNION {[1..n -> TailLines] : n \in 0..MaxLines}}

InitTail ==
    /\ pc = "tail"
    /\ output \in TailFiles
    /\ chunk \in (1..MaxChunk) \cup {chunk_size}
    /\ scan = NoScan
    /\ SimplifyIdle
    /\ CostIdle
    /\ ConvertIdle
    /\ StatsIdle
    /\ JobIdle
    /\ PricingIdle

\* lines 35-42: no file, or the file is opened and pos is its end
TailOpen ==
    /\ pc = "tail"
    /\ \/ /\ ~output.exists
          /\ scan' = Scan(0, <<>>, "returned", None)
          /\ pc' = "tail_done"
       \/ /\ output.exists
          /\ scan' = ScanOpen(output)
          /\ pc' = "tail_scanning"
    /\ UNCHANGED <<output, chunk, simplify_vars, cost_vars, convert_vars, stats_vars, job_vars, pricing_vars>>

\* one pass of the while loop
TailChunk ==
    /\ pc = "tail_scanning"
    /\ scan.pos > 0
    /\ scan' = ScanChunk(output, chunk, scan)
    /\ pc' = IF scan'.status = "scanning" THEN "tail_scanning" ELSE "tail_done"
    /\ UNCHANGED <<output, chunk, simplify_vars, cost_vars, convert_vars, stats_vars, job_vars, pricing_vars>>

\* the loop is over
TailEnd ==
    /\ pc = "tail_scanning"
    /\ scan.pos = 0
    /\ scan' = ScanEnd(scan)
    /\ pc' = "tail_done"
    /\ UNCHANGED <<output, chunk, simplify_vars, cost_vars, convert_vars, stats_vars, job_vars, pricing_vars>>

NextTail == TailOpen \/ TailChunk \/ TailEnd

SpecTail == InitTail /\ [][NextTail]_vars

(***************************************************************************)
(* The raw logs run_log_conversion is applied to: up to MaxRecords         *)
(* pretty-printed objects, one after the other, each an api_response with  *)
(* all its attributes, an api_request, another event, a record without a   *)
(* timestamp, or an object whose end is missing.                           *)
(***************************************************************************)
MaxRecords == 2

MaxRuns == 2

Timestamps == {Str("t1"), Str("t10"), Str("t2")}

\* attributes first, then _body
Response(timestamp) ==
    MakeRecord(Set(MakeAttributes(API_RESPONSE, {"extra_attr"}),
                   "event.timestamp", timestamp),
               TRUE, FALSE)

\* _body first: the brace that closes attributes is alone on its line
Request(timestamp) ==
    Obj(<< Item("_body", Str("body")),
           Item("attributes", Obj(<< Item("event.name", API_REQUEST),
                                     Item("event.timestamp", timestamp) >>)) >>)

StartUp(timestamp) ==
    Obj(<< Item("attributes", Obj(<< Item("event.name", Str("gemini_cli.start_up")),
                                     Item("event.timestamp", timestamp) >>)) >>)

\* records without a timestamp: no attributes, no key, an empty string
Untimed ==
    { Obj(<< Item("_body", Str("body")) >>),
      Obj(<< Item("attributes", Obj(<< Item("event.name", API_RESPONSE) >>)) >>),
      Request(Str("")) }

RawRecords ==
    {Response(t) : t \in Timestamps} \cup {Request(t) : t \in Timestamps}
    \cup {StartUp(t) : t \in Timestamps} \cup Untimed

\* an object cut before its closing braces
CutText ==
    LET text == PrettyRecord(StartUp(Str("t1")))
    IN  SubSeq(text, 1, Len(text) - 5)

\* what the producer wrote, object by object: a record, or None for the
\* cut object
RawChunks == RawRecords \cup {None}

RECURSIVE TextOf(_)
TextOf(chunks) ==
    IF Len(chunks) = 0 THEN <<>>
    ELSE (IF chunks[1] = None THEN CutText ELSE PrettyRecord(chunks[1]))
         \o TextOf(Tail(chunks))

\* the output file before the first run: none, one with a record, one that
\* is no JSON, one whose last line was cut while it was written, one whose
\* record has an empty timestamp
InitialOutputs ==
    { Absent,
      FileOf(Dumps(TailRecord("t10")) \o <<NL>>),
      FileOf(JunkLine),
      FileOf(Dumps(TailRecord("t1")) \o <<NL>> \o TruncatedLine),
      FileOf(Dumps(TailRecord("")) \o <<NL>>) }

InitConvert ==
    /\ pc = "idle"
    /\ source \in UNION {[1..n -> RawChunks] : n \in 0..MaxRecords}
    /\ input = FileOf(TextOf(source))
    /\ output \in InitialOutputs
    /\ level \in 0..3
    /\ chunk = chunk_size
    /\ archive = NoArchive
    /\ now = 0
    /\ run = NoRun
    /\ runs = <<>>
    /\ scan = NoScan
    /\ record = None /\ result = NoOutcome /\ chained = NoChain
    /\ CostIdle
    /\ StatsIdle
    /\ JobIdle
    /\ PricingIdle

\* run_log_conversion, lines 199-213 and 122-128: the input is looked for,
\* the watermark read from the output file, the output file opened
RunStart ==
    /\ pc = "idle"
    /\ Len(runs) < MaxRuns
    /\ \E archiving \in BOOLEAN :
         LET fresh == Run(archiving, None, output, 1, <<>>, 0, 0, <<>>)
             t == get_last_timestamp(output, chunk)
         IN  IF ~input.exists
             THEN /\ runs' = Append(runs, Ended("FileNotFoundError", fresh, output))
                  /\ UNCHANGED <<pc, output, scan, run>>
             ELSE IF t.status = "ValueError"
             THEN /\ runs' = Append(runs, Ended("ValueError", fresh, output))
                  /\ scan' = t
                  /\ UNCHANGED <<pc, output, run>>
             ELSE /\ run' = [fresh EXCEPT !.last_timestamp = t.value]
                  /\ output' = Opened(output, OpenMode(t.value))
                  /\ scan' = t
                  /\ pc' = "converting"
                  /\ UNCHANGED runs
    /\ UNCHANGED <<source, input, archive, now, chunk, simplify_vars, cost_vars, stats_vars, job_vars, pricing_vars>>

\* convert_log_file, lines 130-161: the next line of the input
RunLine ==
    /\ pc = "converting"
    /\ run.offset <= Len(input.data)
    /\ LET step == ConvertLine(run, output, ReadLine(input.data, run.offset), level)
       IN  /\ output' = step.out
           /\ IF step.exc = ""
              THEN run' = step.r /\ UNCHANGED <<pc, runs>>
              ELSE /\ runs' = Append(runs, Ended(step.exc, step.r, step.out))
                   /\ run' = NoRun
                   /\ pc' = "idle"
    /\ UNCHANGED <<source, input, archive, now, chunk, scan, simplify_vars, cost_vars, stats_vars, job_vars, pricing_vars>>

\* lines 163-166 and 215-224: the input is read to its end; the input file
\* is moved into the archive folder under the second the clock shows
RunEnd ==
    /\ pc = "converting"
    /\ run.offset > Len(input.data)
    /\ IF run.archiving_enabled
       THEN \E t \in now..MaxClock :
               /\ now' = t
               /\ archive' = [archive EXCEPT ![t] = input]
               /\ input' = Absent
       ELSE UNCHANGED <<now, archive, input>>
    /\ runs' = Append(runs, Ended("ok", run, output))
    /\ run' = NoRun
    /\ pc' = "idle"
    /\ UNCHANGED <<source, output, chunk, scan, simplify_vars, cost_vars, stats_vars, job_vars, pricing_vars>>

NextConvert == RunStart \/ RunLine \/ RunEnd

SpecConvert == InitConvert /\ [][NextConvert]_vars

(***************************************************************************)
(* Properties of convert_log_file and run_log_conversion                   *)
(***************************************************************************)
\* the timestamp of a record of the raw log, None if it has none
TimestampIn(rec) ==
    IF rec # None /\ Has(rec, "attributes")
       /\ Has(Get(rec, "attributes"), "event.timestamp")
    THEN Get(Get(rec, "attributes"), "event.timestamp")
    ELSE None

HasTime(rec) == TimestampIn(rec) \notin {None, Str("")}

\* a is not after b, as strings
NotAfter(a, b) == LexLeq(Codes(a.s), Codes(b.s))

\* the timestamps of the raw log never go back
NonDecreasing ==
    \A i, j \in 1..Len(source) :
        (i < j /\ HasTime(source[i]) /\ HasTime(source[j])) =>
            NotAfter(TimestampIn(source[i]), TimestampIn(source[j]))

TwoRuns ==
    /\ Len(runs) = 2
    /\ runs[1].status = "ok"
    /\ runs[2].status = "ok"

\* C1 as claimed: for every raw input, whatever its timestamps, a second
\* run on the same input against the output of the first writes no record
\* and leaves the output file unchanged.
C1_IdempotentAnyOrder ==
    TwoRuns => (runs[2].count = 0 /\ runs[2].after = runs[2].before)

\* the output file the first run found was absent, empty, or ended with a
\* line feed
CompleteLines(file) ==
    \/ ~file.exists
    \/ file.data = <<>>
    \/ file.data[Len(file.data)] = NL

\* C1, amended: for every raw input whose timestamps never go back in file
\* order, and a first run that found no output file or one ending with a
\* line feed, a second run on the same input against the output of the
\* first writes no record and leaves the output file unchanged.
C1_Idempotent ==
    (TwoRuns /\ NonDecreasing /\ CompleteLines(runs[1].before)) =>
        /\ runs[2].before = runs[1].after
        /\ runs[2].count = 0
        /\ runs[2].after = runs[2].before

C1_Witness ==
    /\ TwoRuns /\ NonDecreasing /\ CompleteLines(runs[1].before)
    /\ Len(source) = 2
    /\ runs[1].count = 2
    /\ runs[2].skipped_count = 2
    /\ runs[2].count = 0

\* the line the loop reads next, and the object it completes, if any
NextLine == ReadLine(input.data, run.offset)

Upcoming == Loads(run.buffer \o NextLine)

ParsesNext ==
    /\ pc = "converting"
    /\ run.offset <= Len(input.data)
    /\ SelectSeq(NextLine, LAMBDA tok : tok \notin {SP, NL}) = <<RB>>
    /\ Upcoming.ok

\* the lines this run has added to the output file
Added ==
    SplitNL(SubSeq(output.data,
                   (IF Truthy(run.last_timestamp) THEN Len(run.before.data) ELSE 0) + 1,
                   Len(output.data)))

C2_NothingOld ==
    (pc = "converting" /\ Truthy(run.last_timestamp)) =>
        \A i \in 1..Len(Added) :
            Added[i] # <<>> =>
                /\ HasTime(Loads(Added[i]).val)
                /\ ~NotAfter(TimestampIn(Loads(Added[i]).val), run.last_timestamp)

C2_Step ==
    (ParsesNext /\ Truthy(run.last_timestamp) /\ HasTime(Upcoming.val)) =>
        IF NotAfter(TimestampIn(Upcoming.val), run.last_timestamp)
        THEN /\ output' = output
             /\ run'.skipped_count = run.skipped_count + 1
             /\ run'.count = run.count
        ELSE /\ run'.skipped_count = run.skipped_count
             /\ LET simplified == simplify_record(Upcoming.val, level)
                IN  IF simplified.ret = None
                    THEN output' = output /\ run'.count = run.count
                    ELSE /\ run'.count = run.count + 1
                         /\ output'.data
                              = output.data \o Dumps(simplified.ret) \o <<NL>>

\* C2: with a watermark, every parsed record that has a timestamp <= the
\* watermark (as strings) is not written and adds exactly one to
\* skipped_count; every record whose timestamp is greater goes to
\* simplify_record and is written if retained; no record with a timestamp
\* <= the watermark reaches the output.
C2_Watermark == [](C2_NothingOld) /\ [][C2_Step]_vars

C2_Witness ==
    /\ pc = "converting"
    /\ Truthy(run.last_timestamp)
    /\ run.skipped_count >= 1
    /\ run.count >= 1
    /\ \E i \in 1..Len(source) : TimestampIn(source[i]) = run.last_timestamp

\* the text of the first k objects of the raw log
Prefix(k) == TextOf(SubSeq(source, 1, k))

\* the objects that end before the byte the loop is at
Consumed ==
    CHOOSE k \in 0..Len(source) :
        /\ Len(Prefix(k)) < run.offset
        /\ \A j \in (k + 1)..Len(source) : Len(Prefix(j)) >= run.offset

WellFormed == \A i \in 1..Len(source) : source[i] # None

\* C3: in a raw log of pretty-printed objects, each closing with a brace
\* alone on its line, every object is parsed exactly once and in order: the
\* objects parsed are those that end before the current line, and the
\* buffer holds the lines of the object under way and nothing else (a
\* nested closing brace leaves it accumulating, a parse clears it).
C3_Parsing ==
    (pc = "converting" /\ WellFormed) =>
        /\ run.parsed = SubSeq(source, 1, Consumed)
        /\ run.buffer
             = SubSeq(input.data, Len(Prefix(Consumed)) + 1, run.offset - 1)

C3_Witness ==
    /\ pc = "converting" /\ WellFormed
    /\ Len(source) = 2
    /\ run.parsed = <<source[1]>>
    /\ Len(run.buffer) > 3
    /\ SubSeq(run.buffer, Len(run.buffer) - 2, Len(run.buffer)) = <<SP, RB, NL>>

\* C16: every parsed record without an event.timestamp (no attributes, no
\* key, an empty value) is dropped and counted as skipped: it is not
\* written and skipped_count goes up by one for it.
C16_Step ==
    (ParsesNext /\ ~HasTime(Upcoming.val) /\ pc' = "converting") =>
        /\ output' = output
        /\ run'.count = run.count
        /\ run'.skipped_count = run.skipped_count + 1

C16_UntimedSkipped == [][C16_Step]_vars

\* the record the loop parses next has a timestamp the watermark lets through
PassesWatermark ==
    /\ ParsesNext
    /\ HasTime(Upcoming.val)
    /\ ~(Truthy(run.last_timestamp)
         /\ NotAfter(TimestampIn(Upcoming.val), run.last_timestamp))

\* the bytes this run has put into the output file
Appended ==
    SubSeq(output.data,
           (IF Truthy(run.last_timestamp) THEN Len(run.before.data) ELSE 0) + 1,
           Len(output.data))

\* the lines ended in the bytes text
LinesIn(text) == Cardinality({i \in 1..Len(text) : text[i] = NL})

C17_CountsLines ==
    (pc = "converting") => run.count = LinesIn(Appended)

C17_Step ==
    (PassesWatermark /\ simplify_record(Upcoming.val, level).ret = None) =>
        /\ pc' = "converting"
        /\ output' = output
        /\ run'.count = run.count
        /\ run'.skipped_count = run.skipped_count

RECURSIVE WrittenFresh(_, _)
WrittenFresh(parsed, level_) ==
    IF Len(parsed) = 0 THEN <<>>
    ELSE LET simplified == simplify_record(parsed[1], level_).ret
         IN  (IF HasTime(parsed[1]) /\ simplified # None
              THEN Dumps(simplified) \o <<NL>> ELSE <<>>)
             \o WrittenFresh(Tail(parsed), level_)

\* what C18 says of a run that found the output file before, was given the
\* watermark last_timestamp, has parsed the records parsed and has brought
\* the output file to after
Frame(before, last_timestamp, parsed, after) ==
    /\ Truthy(last_timestamp)
         = (get_last_timestamp(before, chunk).value \notin {None, Str("")})
    /\ IF Truthy(last_timestamp)
       THEN /\ Len(after.data) >= Len(before.data)
            /\ SubSeq(after.data, 1, Len(before.data)) = before.data
       ELSE after.data = WrittenFresh(parsed, level)

\* C18: the output is opened to append exactly when a watermark was found:
\* then the bytes it held stay, unchanged, a prefix of its new content, and
\* records are only added after them; without a watermark the output holds
\* after the run the records this run has written and nothing else.
C18_OpenMode ==
    /\ (pc = "converting") =>
          Frame(run.before, run.last_timestamp, run.parsed, output)
    /\ \A i \in 1..Len(runs) :
          (runs[i].status = "ok") =>
              Frame(runs[i].before, runs[i].last_timestamp, runs[i].parsed,
                    runs[i].after)

\* both modes: a first run that replaces an output without watermark, a
\* second that appends to what the first has written
C18_Witness ==
    /\ Len(runs) = 2
    /\ runs[1].status = "ok" /\ runs[2].status = "ok"
    /\ runs[1].before.data # <<>>
    /\ ~Truthy(runs[1].last_timestamp)
    /\ runs[1].count >= 1
    /\ Truthy(runs[2].last_timestamp)
    /\ runs[2].before = runs[1].after
    /\ runs[2].count >= 1

\* the well-formed objects of the raw log, in order
WellFormedObjects == SelectSeq(source, LAMBDA c : c # None)

\* C24: malformed JSON in the raw input is recoverable per record: the
\* conversion does not raise on it, and a conversion that reads its input to
\* the end has parsed every well-formed top-level object of the input, those
\* that follow a malformed (cut) object included.
C24_Recoverable ==
    \A i \in 1..Len(runs) :
        /\ runs[i].status # "JSONDecodeError"
        /\ (runs[i].status = "ok") => runs[i].parsed = WellFormedObjects

(***************************************************************************)
(* Properties of get_last_timestamp                                        *)
(***************************************************************************)
FileLines == SplitNL(output.data)

Unparseable(line) == ~Blank(line) /\ ~Loads(line).ok

\* the last line that is neither blank nor unparseable, 0 if there is none
LastParseable ==
    LET S == {i \in 1..Len(FileLines) :
                ~Blank(FileLines[i]) /\ Loads(FileLines[i]).ok}
    IN  IF S = {} THEN 0 ELSE CHOOSE i \in S : \A j \in S : j <= i

HasTimestamp(line) ==
    LET r == Loads(line)
    IN  /\ r.ok
        /\ Has(r.val, "attributes")
        /\ Has(Get(r.val, "attributes"), "event.timestamp")

\* the file ends in unparseable lines that follow a well-formed line
CorruptTail ==
    /\ output.exists
    /\ LastParseable > 0
    /\ HasTimestamp(FileLines[LastParseable])
    /\ \E i \in (LastParseable + 1)..Len(FileLines) : Unparseable(FileLines[i])

\* C4: on a JSONL file whose trailing lines are truncated or corrupt (no
\* JSON), get_last_timestamp returns the event.timestamp of the nearest
\* preceding well-formed line and does not fail.
C4_CorruptTail ==
    (pc = "tail_done" /\ CorruptTail) =>
        /\ scan.status = "returned"
        /\ scan.value
             = Get(Get(Loads(FileLines[LastParseable]).val, "attributes"),
                   "event.timestamp")

C4_Witness ==
    /\ pc = "tail_done"
    /\ CorruptTail
    /\ LastParseable = 1
    /\ Len(FileLines) = 3
    /\ Unparseable(FileLines[2]) /\ Unparseable(FileLines[3])
    /\ chunk = 2
    /\ scan.value = Str("t1")

\* the file consists of well-formed lines (a record with a timestamp) and
\* blank lines, and has a line that is not blank
WellFormedLines ==
    /\ output.exists
    /\ \A i \in 1..Len(FileLines) :
          Blank(FileLines[i]) \/ HasTimestamp(FileLines[i])
    /\ \E i \in 1..Len(FileLines) : ~Blank(FileLines[i])

LastLine ==
    LET S == {i \in 1..Len(FileLines) : ~Blank(FileLines[i])}
    IN  CHOOSE i \in S : \A j \in S : j <= i

RECURSIVE LineStart(_)
\* the offset in the file of the first byte of line i
LineStart(i) ==
    IF i = 1 THEN 0 ELSE LineStart(i - 1) + Len(FileLines[i - 1]) + 1

\* the offset after the last byte of the earliest chunk read
ChunkEnd ==
    LET size == Len(output.data)
    IN  IF scan.pos > 0 \/ size % chunk = 0 THEN scan.pos + chunk
        ELSE size % chunk

C27_Value ==
    (pc = "tail_done" /\ WellFormedLines) =>
        /\ scan.status = "returned"
        /\ scan.value = TimestampOf(FileLines[LastLine]).v

\* every pass reads the chunk bytes before pos, or what is left of the file
C27_Step ==
    (pc = "tail_scanning" /\ scan.pos > 0 /\ scan' # scan) =>
        /\ scan'.pos < scan.pos
        /\ scan'.pos = (IF scan.pos > chunk THEN scan.pos - chunk ELSE 0)

\* C27 as stated: the earliest chunk read is the one that contains the
\* start of the returned line.
C27_StartChunk ==
    (pc = "tail_done" /\ WellFormedLines) => ChunkEnd > LineStart(LastLine)

C27_ChunkIndependentToStart ==
    [](C27_Value /\ C27_StartChunk) /\ [][C27_Step]_vars

\* the earliest chunk read is the one that contains the newline before the
\* returned line, or the start of the file
C27_NewlineChunk ==
    (pc = "tail_done" /\ WellFormedLines) => ChunkEnd >= LineStart(LastLine)

\* C27: the tail scan is independent of chunk boundaries: for every file of
\* well-formed JSONL lines and every chunk size >= 1 it returns the
\* event.timestamp of the last line that is not blank; every pass reads the
\* bytes right before those read so far, so each byte is read at most once;
\* and no chunk is read that is earlier than the one containing the newline
\* that precedes the returned line.
C27_ChunkIndependent ==
    [](C27_Value /\ C27_NewlineChunk) /\ [][C27_Step]_vars

C27_Witness ==
    /\ pc = "tail_done"
    /\ WellFormedLines
    /\ Len(FileLines) = 3
    /\ LastLine = 2
    /\ chunk = 2
    /\ scan.pos > 0
    /\ scan.value = Str("t2")
    /\ ChunkEnd > LineStart(LastLine)

\* no line of the file holds a record with an event.timestamp
NoTimestamp ==
    /\ output.exists
    /\ \A i \in 1..Len(FileLines) : ~HasTimestamp(FileLines[i])

\* C19: on an existing output file that yields no parseable timestamp at
\* all (every line blank or corrupt, the first line of the file included),
\* get_last_timestamp returns None, as for an absent or empty file, and
\* does not fail.
C19_NoWatermark ==
    (pc = "tail_done" /\ NoTimestamp) =>
        (scan.status = "returned" /\ scan.value = None)

(***************************************************************************)
(* run_log_simplification.  A JSONL file is the sequence of what           *)
(* orjsonl.stream gives for its lines (Corrupt: the line is no JSON); the  *)
(* archive folder holds, per second t of the clock, the file the archive  *)
(* target name of that second designates.                                  *)
(***************************************************************************)
MaxJobLines == 2

JobRecord(name) == MakeRecord(MakeAttributes(name, {}), TRUE, TRUE)

\* an api_response, an api_request, a record level 1 and above drop, a line
\* that is JSON but no object, a corrupt line
JobLines ==
    {JobRecord(API_RESPONSE), JobRecord(API_REQUEST),
     JobRecord(Str("gemini_cli.start_up")), Num(5), Corrupt}

JobInputs ==
    {Absent} \cup
    {FileOf(lines) : lines \in UNION {[1..n -> JobLines] : n \in 0..MaxJobLines}}

\* what an earlier run that failed may have left
Leftovers == {Absent, FileOf(<<>>), FileOf(<<Num(5)>>)}

\* a write that puts the record before what the temp file holds
WrittenFirst(written, simplified_obj) ==
    IF simplified_obj = None THEN written ELSE <<simplified_obj>> \o written

\* lines 144-145: fout.write, unless simplify_record returned None
Written(written, simplified_obj) ==
    IF simplified_obj = None THEN written ELSE Append(written, simplified_obj)

\* lines 139-145: the records written to the temp file, and the exception
\* that ends the loop ("" for none)
RECURSIVE WriteTemp(_, _, _)
WriteTemp(lines, level_, written) ==
    IF Len(lines) = 0 THEN [out |-> written, exc |-> ""]
    ELSE LET obj == lines[1]
         IN  IF obj = Corrupt
             THEN [out |-> written, exc |-> "JSONDecodeError"]
             ELSE IF obj.ty # "obj"
             THEN WriteTemp(Tail(lines), level_, written)
             ELSE LET simplified_obj == simplify_record(obj, level_)
                  IN  IF simplified_obj.exc # ""
                      THEN [out |-> written, exc |-> simplified_obj.exc]
                      ELSE WriteTemp(Tail(lines), level_,
                                     Written(written, simplified_obj.ret))

\* a check of the temp file that never finds one
TempExistsUnchecked(j) == FALSE

\* lines 122-123: temp_file.exists()
TempExists(j) == j.temp.exists

\* lines 111-163, called at second t of the clock
run_log_simplification(j, t) ==
    LET End(status_) == [j EXCEPT !.status = status_, !.now = t]
    IN  IF ~j.jsonl THEN End("ValueError")
        ELSE IF ~j.file.exists THEN End("FileNotFoundError")
        ELSE IF j.level = 0 THEN End("return 0")
        ELSE IF j.level < 0 \/ j.level > 3 THEN End("ValueError")
        ELSE IF TempExists(j) THEN End("ValueError")
        ELSE IF ~j.disable_archiving /\ j.archive[t].exists
             THEN End("ValueError")
        ELSE
          LET w == WriteTemp(j.file.data, j.level, <<>>)
          IN  IF w.exc # ""
              THEN [End("return 1") EXCEPT !.temp = FileOf(w.out)]
              ELSE [End("return 0") EXCEPT
                       !.archive = IF j.disable_archiving THEN @
                                   ELSE [@ EXCEPT ![t] = j.file],
                       !.file = FileOf(w.out),
                       !.temp = Absent]

InitJob ==
    /\ pc = "job"
    /\ \E file_ \in JobInputs, temp_ \in Leftovers,
          archive_ \in [0..MaxClock -> {Absent, FileOf(<<Num(5)>>)}],
          level_ \in Levels, now_ \in 0..MaxClock,
          jsonl_ \in BOOLEAN, disable_archiving_ \in BOOLEAN :
          job = [jsonl |-> jsonl_, file |-> file_, temp |-> temp_,
                 archive |-> archive_, now |-> now_, level |-> level_,
                 disable_archiving |-> disable_archiving_, status |-> "idle"]
    /\ SimplifyIdle
    /\ CostIdle
    /\ TailIdle
    /\ ConvertIdle
    /\ StatsIdle
    /\ PricingIdle

\* one call of run_log_simplification, now or at a later second
JobCall ==
    /\ pc = "job"
    /\ \E t \in job.now..MaxClock : job' = run_log_simplification(job, t)
    /\ UNCHANGED <<pc, simplify_vars, cost_vars, tail_vars, convert_vars, stats_vars, pricing_vars>>

NextJob == JobCall

SpecJob == InitJob /\ [][NextJob]_vars

(***************************************************************************)
(* Properties of run_log_simplification                                    *)
(***************************************************************************)
Raised(j) == j.status \in {"ValueError", "FileNotFoundError"}

\* no file is created, truncated, moved or deleted by the step
Untouched ==
    /\ job'.file = job.file
    /\ job'.temp = job.temp
    /\ job'.archive = job.archive

\* the input does not end in .jsonl or does not exist
BadInput == ~job.jsonl \/ ~job.file.exists

\* the temp file exists, or archiving is enabled and the archive target of
\* the second of the call exists
Ambiguous ==
    \/ job.temp.exists
    \/ ~job.disable_archiving /\ job.archive[job'.now].exists

\* C20 as stated: a call with a bad input, an existing temp file or an
\* existing archive target raises and touches no file, at every level.
C20_StepAnyLevel ==
    (job' # job /\ (BadInput \/ Ambiguous)) => (Raised(job') /\ Untouched)

C20_Step ==
    (job' # job) =>
        /\ (BadInput \/ (job.level # 0 /\ Ambiguous)) =>
               (Raised(job') /\ Untouched)
        /\ (~BadInput /\ job.level = 0) =>
               (job'.status = "return 0" /\ Untouched)
        /\ Raised(job') => Untouched

RECURSIVE Simplified(_, _)
Simplified(lines, level_) ==
    IF Len(lines) = 0 THEN <<>>
    ELSE LET r == lines[1]
             kept == r.ty = "obj" /\ simplify_record(r, level_).ret # None
         IN  (IF kept THEN <<simplify_record(r, level_).ret>> ELSE <<>>)
             \o Simplified(Tail(lines), level_)

C23_Step ==
    (job' # job /\ job'.status = "return 0") =>
        IF job.level = 0 THEN Untouched
        ELSE /\ job.level \in 1..3
             /\ job'.file = FileOf(Simplified(job.file.data, job.level))
             /\ ~job'.temp.exists
             /\ job'.archive
                  = IF job.disable_archiving THEN job.archive
                    ELSE [job.archive EXCEPT ![job'.now] = job.file]

\* C23: after a run_log_simplification that returns 0 at level 1, 2 or 3
\* the file at the input path holds exactly simplify_record(r, L) for each
\* record r it held that is retained, in the original order, and there is
\* no temp file; with archiving enabled the archive file of the second of
\* the call holds the original content, with archiving disabled the archive
\* folder is as before.  At level 0 the run returns 0 and no file changes.
C23_Simplified == [][C23_Step]_vars

C23_Witness ==
    /\ job.status = "return 0"
    /\ job.level = 2
    /\ ~job.disable_archiving
    /\ ~job.temp.exists
    /\ job.archive[job.now]
         = FileOf(<<JobRecord(API_REQUEST), JobRecord(API_RESPONSE)>>)
    /\ Len(job.file.data) = 2
    /\ job.file.data[1] = simplify_record(JobRecord(API_REQUEST), 2).ret
    /\ job.file.data[1] # JobRecord(API_REQUEST)

(***************************************************************************)
(* Archiving in run_log_conversion: the archive folder may hold files of   *)
(* earlier runs, and the producer starts a new raw log once the old one    *)
(* has been moved away.                                                    *)
(***************************************************************************)
\* the raw logs of the producer, one after the other
ArchiveSources == {<<StartUp(Str("t1"))>>, <<StartUp(Str("t2"))>>}

InitArchive ==
    /\ pc = "idle"
    /\ source \in ArchiveSources
    /\ input = FileOf(TextOf(source))
    /\ output \in {Absent, FileOf(Dumps(TailRecord("t10")) \o <<NL>>)}
    /\ level \in 0..3
    /\ chunk = chunk_size
    /\ archive \in [0..MaxClock -> {Absent, FileOf(JunkLine)}]
    /\ now \in 0..MaxClock
    /\ run = NoRun
    /\ runs = <<>>
    /\ scan = NoScan
    /\ record = None /\ result = NoOutcome /\ chained = NoChain
    /\ CostIdle
    /\ StatsIdle
    /\ JobIdle
    /\ PricingIdle

\* the producer writes a new raw log where the archived one was
Produce ==
    /\ pc = "idle"
    /\ ~input.exists
    /\ \E next \in ArchiveSources :
          /\ source' = next
          /\ input' = FileOf(TextOf(next))
    /\ UNCHANGED <<pc, output, level, chunk, archive, now, run, runs, scan, record, result, chained, cost_vars, stats_vars, job_vars, pricing_vars>>

NextArchive == RunStart \/ RunLine \/ RunEnd \/ Produce

SpecArchive == InitArchive /\ [][NextArchive]_vars

(***************************************************************************)
(* Properties of the archiving of run_log_conversion                       *)
(***************************************************************************)
C21_Step ==
    \A t \in 0..MaxClock : archive[t].exists => archive'[t] = archive[t]

\* C21: archiving never overwrites a previously archived file: a file that
\* exists at an archive target path, left by an earlier run or already
\* there, is still there, unchanged, after every step of run_log_conversion.
C21_NeverOverwrites == [][C21_Step]_vars

(***************************************************************************)
(* get_price_spec.  The cache file holds a JSON value, or Corrupt when it  *)
(* cannot be read as JSON; the URL gives a JSON value, or Unreachable when *)
(* _fetch_from_url raises; the age of the cache is time.time() - mtime.    *)
(***************************************************************************)
MaxAge == 2

Unreachable == [ty |-> "error", s |-> "", n |-> 0, m |-> <<>>]

\* lines 72-77 and 85-89: the cache file can be opened and holds JSON
Readable(file) == file.exists /\ file.data # Corrupt

\* a cache that counts as fresh at any age
FreshAlways(p) == p.cache.exists

\* lines 69-71
Fresh(p) == p.cache.exists /\ p.age < p.interval

\* lines 93-100: the cache file after the attempt to save json_data: the
\* file written; left as it was when mkdir or open fails; cut when the write
\* fails after the file was opened
Saved(p, json_data) ==
    CASE p.disk = "ok"          -> FileOf(json_data)
      [] p.disk = "open fails"  -> p.cache
      [] p.disk = "write fails" -> FileOf(Corrupt)

\* lines 61-102
get_price_spec(p) ==
    LET Return(value_, fetches_, cache_) ==
            [p EXCEPT !.status = "returned", !.value = value_,
                      !.fetches = fetches_, !.cache = cache_]
        Raise(e) == [p EXCEPT !.status = e, !.fetches = 1]
    IN  IF ~p.configured
        THEN IF p.remote = Unreachable THEN Raise("RuntimeError")
             ELSE Return(p.remote, 1, p.cache)
        ELSE IF Fresh(p) /\ Readable(p.cache)
        THEN Return(p.cache.data, 0, p.cache)
        ELSE IF p.remote = Unreachable
        THEN IF Readable(p.cache) THEN Return(p.cache.data, 1, p.cache)
             ELSE Raise("RuntimeError")
        ELSE [Return(p.remote, 1, Saved(p, p.remote)) EXCEPT
                 !.age = IF p.disk = "open fails" THEN @ ELSE 0]

PriceData == {Obj(<< Item("old", Str("data")) >>), Obj(<< Item("new", Str("data")) >>)}

InitPricing ==
    /\ pc = "pricing"
    /\ \E configured_ \in BOOLEAN,
          cache_ \in {Absent, FileOf(Corrupt)} \cup {FileOf(x) : x \in PriceData},
          age_ \in (0 - 1)..MaxAge, interval_ \in 0..MaxAge,
          remote_ \in PriceData \cup {Unreachable},
          disk_ \in {"ok", "open fails", "write fails"} :
          pricing = [configured |-> configured_, cache |-> cache_,
                     age |-> age_, interval |-> interval_, remote |-> remote_,
                     disk |-> disk_, fetches |-> 0, status |-> "idle",
                     value |-> None]
    /\ SimplifyIdle
    /\ CostIdle
    /\ TailIdle
    /\ ConvertIdle
    /\ StatsIdle
    /\ JobIdle

\* one call of get_price_spec
PricingCall ==
    /\ pc = "pricing"
    /\ pricing.status = "idle"
    /\ pricing' = get_price_spec(pricing)
    /\ UNCHANGED <<pc, simplify_vars, cost_vars, tail_vars, convert_vars, stats_vars, job_vars>>

NextPricing == PricingCall

SpecPricing == InitPricing /\ [][NextPricing]_vars

(***************************************************************************)
(* Properties of get_price_spec                                            *)
(***************************************************************************)
\* a call with a cache path configured
Called == pricing.status = "idle" /\ pricing.configured /\ pricing' # pricing

\* the cache file is younger than update_interval_seconds
Young == pricing.cache.exists /\ pricing.age < pricing.interval

Returns(value_) == pricing'.status = "returned" /\ pricing'.value = value_

\* the fresh-cache and the fetch-failure parts of C22
C22_Fallback ==
    Called =>
        IF Young /\ Readable(pricing.cache)
        THEN /\ Returns(pricing.cache.data)
             /\ pricing'.fetches = 0
             /\ pricing'.cache = pricing.cache
        ELSE /\ pricing'.fetches = 1
             /\ (pricing.remote = Unreachable) =>
                  /\ pricing'.cache = pricing.cache
                  /\ IF Readable(pricing.cache)
                     THEN Returns(pricing.cache.data)
                     ELSE pricing'.status = "RuntimeError"
             /\ (pricing.remote # Unreachable) => Returns(pricing.remote)

Fetched ==
    /\ Called
    /\ ~(Young /\ Readable(pricing.cache))
    /\ pricing.remote # Unreachable

\* C22 as stated: after every successful fetch the cache file holds the
\* fetched data.
C22_StepAlwaysSaved ==
    /\ C22_Fallback
    /\ Fetched => pricing'.cache = FileOf(pricing.remote)

C22_Step ==
    /\ C22_Fallback
    /\ (Fetched /\ pricing.disk = "ok") => pricing'.cache = FileOf(pricing.remote)

MaxGrow == 3

GrowRecords ==
    {Response(t) : t \in Timestamps} \cup {Request(t) : t \in Timestamps}
    \cup {StartUp(t) : t \in Timestamps} \cup {Obj(<< Item("_body", Str("body")) >>)}

\* the tokens of an object not yet written: none, or the closing brace and
\* its newline
Unwritten == {0, 2}

\* what the log holds after its complete objects
PartlyWritten == SubSeq(input.data, Len(TextOf(source)) + 1, Len(input.data))

InitGrow ==
    /\ pc = "idle"
    /\ source = <<>>
    /\ input = FileOf(<<>>)
    /\ output = Absent
    /\ level \in 0..3
    /\ chunk \in {MaxChunk, chunk_size}
    /\ archive = NoArchive
    /\ now = 0
    /\ run = NoRun
    /\ runs = <<>>
    /\ scan = NoScan
    /\ record = None /\ result = NoOutcome /\ chained = NoChain
    /\ CostIdle
    /\ StatsIdle
    /\ JobIdle
    /\ PricingIdle

\* the producer writes on: it ends the object under way, or starts the next
\* one, and may stop before the end of it
Grow ==
    /\ pc = "idle"
    /\ input.exists
    /\ Len(source) < MaxGrow
    /\ \E r \in GrowRecords, cut \in Unwritten :
         LET text == PrettyRecord(r)
             written == SubSeq(text, 1, Len(text) - cut)
         IN  /\ HasTime(r) =>
                   \A j \in 1..Len(source) :
                       HasTime(source[j]) =>
                           ~NotAfter(TimestampIn(r), TimestampIn(source[j]))
             /\ Len(PartlyWritten) < Len(written)
             /\ SubSeq(written, 1, Len(PartlyWritten)) = PartlyWritten
             /\ input' = FileOf(TextOf(source) \o written)
             /\ source' = IF cut = 0 THEN Append(source, r) ELSE source
    /\ UNCHANGED <<pc, output, level, chunk, archive, now, run, runs, scan, record, result, chained, cost_vars, stats_vars, job_vars, pricing_vars>>

NextGrow == RunStart \/ RunLine \/ RunEnd \/ Grow

SpecGrow == InitGrow /\ [][NextGrow]_vars

(***************************************************************************)
(* Properties of the conversion of a growing log                           *)
(***************************************************************************)
RECURSIVE ConvertRest(_, _, _, _)
\* convert_log_file from the locals r on, to the end of text: the output
ConvertRest(r, out, text, level_) ==
    IF r.offset > Len(text) THEN out
    ELSE LET step == ConvertLine(r, out, ReadLine(text, r.offset), level_)
         IN  IF step.exc # "" THEN step.out
             ELSE ConvertRest(step.r, step.out, text, level_)

\* the output of one fresh conversion of text: no output file before
FreshConversion(text, level_) ==
    ConvertRest(Run(FALSE, None, Absent, 1, <<>>, 0, 0, <<>>),
                Opened(Absent, OpenMode(None)), text, level_)

C28_Step ==
    (pc = "converting" /\ pc' = "idle") =>
        /\ runs'[Len(runs')].status = "ok"
        /\ output' = FreshConversion(input.data, level)

\* C28: incremental conversion equals full conversion: when the raw log only
\* grows by appended records whose timestamps increase strictly, then after
\* each of the successive run_log_conversion runs at one level, each on a
\* longer prefix of the log that may end in a partly written object, the
\* output file is the output of one fresh conversion of the log as that run
\* saw it: no record is lost and none is written twice.
C28_IncrementalIsFull == [][C28_Step]_vars

C28_Witness ==
    /\ Len(runs) = 2
    /\ runs[1].status = "ok" /\ runs[2].status = "ok"
    /\ Len(runs[1].parsed) = 1
    /\ runs[1].count = 1
    /\ Len(runs[2].parsed) = 2
    /\ runs[2].skipped_count = 1
    /\ runs[2].count = 1
    /\ runs[2].before = runs[1].after
    /\ input.exists /\ PartlyWritten # <<>>

(***************************************************************************)
(* Properties of the output file of run_log_conversion                     *)
(***************************************************************************)
\* the output file did not exist before the first run
FromAbsent ==
    \/ Len(runs) >= 1 /\ runs[1].before = Absent
    \/ Len(runs) = 0 /\ pc = "converting" /\ run.before = Absent

\* the line is a JSON object with a non-empty attributes["event.timestamp"]
TimedObject(line) ==
    LET r == Loads(line)
    IN  /\ r.ok
        /\ r.val.ty = "obj"
        /\ Has(r.val, "attributes")
        /\ Get(r.val, "attributes").ty = "obj"
        /\ Has(Get(r.val, "attributes"), "event.timestamp")
        /\ Get(Get(r.val, "attributes"), "event.timestamp") \notin {None, Str("")}

\* the lines of the output file: what follows the last line feed is empty
OutputLines ==
    LET lines == SplitNL(output.data)
    IN  SubSeq(lines, 1, Len(lines) - 1)

\* the timestamp of the last line of the output file, None without a line
LastWritten ==
    IF OutputLines = <<>> THEN None
    ELSE LET r == Loads(OutputLines[Len(OutputLines)])
         IN  Get(Get(r.val, "attributes"), "event.timestamp")

====
